---- MODULE Spec2Model ----
(***************************************************************************)
(* Model of the Homer SIP call correlation engine of livekit-dashboard     *)
(* (src/app/routes/homer.py): _group_calls, _build_call_detail,            *)
(* _build_session, _find_response_ts, _call_summary_from_transaction and   *)
(* _ms_to_hhmmss; of the routes that serve it (homer_index,                *)
(* homer_call_detail, homer_call_export) with the client of the capture    *)
(* backend (src/app/services/homer.py); and of the admin guard             *)
(* (src/app/security/basic_auth.py).                                       *)
(*                                                                         *)
(* A Python dict is a TLA+ function whose DOMAIN is the set of keys that   *)
(* are present; a Python list is a sequence; a Python str is a string.     *)
(* The engine is a set of pure functions over an already fetched batch, so *)
(* every specification draws the batch in Init and its actions apply the   *)
(* functions to it.                                                        *)
(***************************************************************************)
EXTENDS Integers, Sequences, FiniteSets, TLC

VARIABLES
    pc,           \* the function under call and its progress: "search" then "grouped"
                  \* then "classified"; "callid_search" then "summarised"; "detail";
                  \* for an HTTP request "received", "authorized", "done"
    records,      \* the list returned by search_calls, argument of _group_calls
    rows,         \* the list returned by _group_calls
    response,     \* the transaction response as the backend returned it (never written)
    transaction,  \* the same response object as the engine holds it (Python passes it by reference)
    detail,       \* the dict returned by the latest _build_call_detail
    detail_prev,  \* the dict returned by the _build_call_detail call before it
    calls,        \* how many times _build_call_detail has run on `transaction`
    summary,      \* the value returned by _call_summary_from_transaction
    request,      \* the HTTP request being served (the empty dict when the engine is called directly)
    environ,      \* os.environ
    token_cache,  \* the module-level _token and _token_exp of services/homer.py
    backend,      \* how the capture backend answers the calls of this request (never written)
    backend_calls,\* the calls made to the capture backend, in order, each with its outcome
    page,         \* the HTTP response
    clock,        \* the time the process reads: time.time() or time.monotonic(), in seconds
    trace,        \* the calls of the service functions made so far, each with what it returned
    store,        \* the module-level _store of services/cache.py
    session,      \* request.session, the dict the session middleware carries between requests
    tasks         \* the coroutines running _ensure_token, each with its progress

\* the state of the engine and the state of the HTTP layer
engine == <<records, rows, response, transaction, detail, detail_prev, calls, summary>>
http == <<request, environ, token_cache, backend, backend_calls, page>>
services == <<clock, trace, store, session, tasks>>

vars == <<pc, records, rows, response, transaction, detail, detail_prev, calls, summary,
          request, environ, token_cache, backend, backend_calls, page,
          clock, trace, store, session, tasks>>

-----------------------------------------------------------------------------
(* Bounds of the model *)

\* longest search batch handed to _group_calls
MaxRecs == 3

\* longest message list of a transaction response
MaxMsgs == 3

\* largest timestamp (ms) of the INVITE of the four-message call
MaxShift == 2

\* most calls of the service functions (token provider, dispatch cache, flash)
\* in one run
MaxOps == 3

\* most coroutines inside _ensure_token at a time
MaxTasks == 2

-----------------------------------------------------------------------------
(* Python values *)

\* Python None, where a dict is expected
None == [none |-> TRUE]

\* dict: key in d
Has(d, k) == k \in DOMAIN d

\* dict.get(k, default)
Get(d, k, default) == IF k \in DOMAIN d THEN d[k] ELSE default

\* a dict with the one key k, or the empty dict when opt = {} (opt is {} or {value})
Field(k, opt) == IF opt = {} THEN <<>> ELSE [x \in {k} |-> CHOOSE v \in opt : TRUE]

\* `a or b` on str (None reads as "": both are falsy)
StrOr(a, b) == IF a # "" THEN a ELSE b

\* `a or b` on int (None reads as 0: both are falsy)
IntOr(a, b) == IF a # 0 THEN a ELSE b

SeqToSet(s) == {s[i] : i \in DOMAIN s}

\* max(...) and min(...) of a non-empty collection of ints
Max(S) == CHOOSE x \in S : \A y \in S : y <= x
Min(S) == CHOOSE x \in S : \A y \in S : x <= y

\* the code points of the strings the model uses (str is compared and
\* prefix-tested character by character)
Chars(s) ==
    CASE s = "" -> <<>>
      [] s = "180" -> <<49, 56, 48>>
      [] s = "200" -> <<50, 48, 48>>
      [] s = "ACK" -> <<65, 67, 75>>
      [] s = "BYE" -> <<66, 89, 69>>
      [] s = "CANCEL" -> <<67, 65, 78, 67, 69, 76>>
      [] s = "INVITE" -> <<73, 78, 86, 73, 84, 69>>
      [] s = "SIP/2.0 " -> <<83, 73, 80, 47, 50, 46, 48, 32>>
      [] s = "SIP/2.0 200" -> <<83, 73, 80, 47, 50, 46, 48, 32, 50, 48, 48>>
      [] s = "SIP/2.0 200 " -> <<83, 73, 80, 47, 50, 46, 48, 32, 50, 48, 48, 32>>
      [] s = "SIP/2.0 180" -> <<83, 73, 80, 47, 50, 46, 48, 32, 49, 56, 48>>
      [] s = "SIP/2.0 180 " -> <<83, 73, 80, 47, 50, 46, 48, 32, 49, 56, 48, 32>>
      [] s = "SIP/2.0 200 OK" -> <<83, 73, 80, 47, 50, 46, 48, 32, 50, 48, 48, 32, 79, 75>>
      [] s = "SIP/2.0 180 Ringing" ->
            <<83, 73, 80, 47, 50, 46, 48, 32, 49, 56, 48, 32, 82, 105, 110, 103, 105, 110, 103>>
      [] s = "INVITE sip:bob SIP/2.0" ->
            <<73, 78, 86, 73, 84, 69, 32, 115, 105, 112, 58, 98, 111, 98, 32, 83, 73, 80, 47, 50, 46, 48>>
      [] s = "BYE sip:bob SIP/2.0" ->
            <<66, 89, 69, 32, 115, 105, 112, 58, 98, 111, 98, 32, 83, 73, 80, 47, 50, 46, 48>>
      [] s = "CANCEL sip:bob SIP/2.0" ->
            <<67, 65, 78, 67, 69, 76, 32, 115, 105, 112, 58, 98, 111, 98, 32, 83, 73, 80, 47, 50, 46, 48>>
      [] s = "rtcp report" -> <<114, 116, 99, 112, 32, 114, 101, 112, 111, 114, 116>>
      [] s = "log 1" -> <<108, 111, 103, 32, 49>>
      [] s = "log 2" -> <<108, 111, 103, 32, 50>>
      [] s = "log 3" -> <<108, 111, 103, 32, 51>>
      [] s = "log 4" -> <<108, 111, 103, 32, 52>>
      [] s = "log 5" -> <<108, 111, 103, 32, 53>>
      [] s = " " -> <<32>>
      [] s = "abc" -> <<97, 98, 99>>
      [] s = " abc " -> <<32, 97, 98, 99, 32>>
      [] s = "alice" -> <<97, 108, 105, 99, 101>>
      [] s = "true" -> <<116, 114, 117, 101>>
      [] s = "TRUE" -> <<84, 82, 85, 69>>
      [] s = "false" -> <<102, 97, 108, 115, 101>>
      [] s = "admin" -> <<97, 100, 109, 105, 110>>
      [] s = "Admin" -> <<65, 100, 109, 105, 110>>
      [] s = "root" -> <<114, 111, 111, 116>>
      [] s = "changeme" -> <<99, 104, 97, 110, 103, 101, 109, 101>>
      [] s = "secret" -> <<115, 101, 99, 114, 101, 116>>
      [] s = "http://homer:9080" ->
            <<104, 116, 116, 112, 58, 47, 47, 104, 111, 109, 101, 114, 58, 57, 48, 56, 48>>

\* the strings that str.strip and str.lower are applied to, and their results
Strings ==
    {"", " ", "abc", " abc ", "alice", "INVITE", "true", "TRUE", "false", "admin", "secret",
     "http://homer:9080"}

\* the str of a sequence of code points
FromChars(cs) == CHOOSE s \in Strings : Chars(s) = cs

\* str.strip(): leading and trailing whitespace removed
strip(s) ==
    LET cs == Chars(s)
        keep == {i \in DOMAIN cs : cs[i] \notin {9, 10, 11, 12, 13, 32}}
    IN  IF keep = {} THEN ""
        ELSE FromChars(SubSeq(cs, Min(keep), Max(keep)))

\* str.lower()
lower(s) ==
    LET cs == Chars(s)
    IN  FromChars([i \in DOMAIN cs |-> IF cs[i] \in 65..90 THEN cs[i] + 32 ELSE cs[i]])

\* str.startswith(prefix)
StartsWith(s, prefix) ==
    LET cs == Chars(s)
        cp == Chars(prefix)
    IN  /\ Len(cp) <= Len(cs)
        /\ \A i \in 1..Len(cp) : cs[i] = cp[i]

\* a < b on str: the first differing code point decides, a proper prefix is smaller
StrLess(a, b) ==
    LET ca == Chars(a)
        cb == Chars(b)
        common == {i \in 1..Len(ca) : i <= Len(cb)}
        diff == {i \in common : ca[i] # cb[i]}
    IN  IF diff = {} THEN Len(ca) < Len(cb)
        ELSE ca[Min(diff)] < cb[Min(diff)]

\* a faulty variant of SortedStrs: sorted(S, reverse=True)
RECURSIVE SortedStrsReverse(_)
SortedStrsReverse(S) ==
    IF S = {} THEN <<>>
    ELSE LET x == CHOOSE y \in S : \A z \in S : ~StrLess(y, z)
         IN  <<x>> \o SortedStrsReverse(S \ {x})

\* sorted(S) for a set of str
RECURSIVE SortedStrs(_)
SortedStrs(S) ==
    IF S = {} THEN <<>>
    ELSE LET x == CHOOSE y \in S : \A z \in S : ~StrLess(z, y)
         IN  <<x>> \o SortedStrs(S \ {x})

\* list.sort / sorted on <<key, item>> pairs, ascending by key. Python's sort is
\* stable: an item goes behind every item already placed whose key is <= its own.
RECURSIVE SortPairs(_)
SortPairs(ps) ==
    IF ps = <<>> THEN <<>>
    ELSE LET n == Len(ps)
             done == SortPairs(SubSeq(ps, 1, n - 1))
             p == ps[n]
             before == {i \in DOMAIN done : done[i][1] <= p[1]}
             k == Cardinality(before)
         IN  SubSeq(done, 1, k) \o <<p>> \o SubSeq(done, k + 1, Len(done))

\* list.sort(reverse=True) on <<key, item>> pairs: descending by key and still
\* stable (items with equal keys keep their order)
RECURSIVE SortPairsReverse(_)
SortPairsReverse(ps) ==
    IF ps = <<>> THEN <<>>
    ELSE LET n == Len(ps)
             done == SortPairsReverse(SubSeq(ps, 1, n - 1))
             p == ps[n]
             before == {i \in DOMAIN done : done[i][1] >= p[1]}
             k == Cardinality(before)
         IN  SubSeq(done, 1, k) \o <<p>> \o SubSeq(done, k + 1, Len(done))

Items(ps) == [i \in DOMAIN ps |-> ps[i][2]]

\* f"{n:02d}"
Pad2(n) == IF n < 10 THEN "0" \o ToString(n) ELSE ToString(n)

\* _ms_to_hhmmss
ms_to_hhmmss(ms) ==
    IF ms <= 0 THEN "0s"
    ELSE LET seconds == ms \div 1000
             h == seconds \div 3600
             rem == seconds % 3600
             m == rem \div 60
             s == rem % 60
         IN  IF h # 0 THEN ToString(h) \o "h " \o Pad2(m) \o "m " \o Pad2(s) \o "s"
             ELSE IF m # 0 THEN ToString(m) \o "m " \o Pad2(s) \o "s"
             ELSE ToString(s) \o "s"

-----------------------------------------------------------------------------
(* _group_calls *)

\* rec.get("callid") or rec.get("call_id") or ""
CallIdOf(rec) == StrOr(Get(rec, "callid", ""), StrOr(Get(rec, "call_id", ""), ""))

\* a faulty variant of Groups: a new group starts whenever the call id differs from
\* the one of the record before (grouping of consecutive runs)
RECURSIVE GroupsOfRuns(_)
GroupsOfRuns(recs) ==
    IF recs = <<>> THEN <<>>
    ELSE LET n == Len(recs)
             prev == GroupsOfRuns(SubSeq(recs, 1, n - 1))
             cid == CallIdOf(recs[n])
         IN  IF prev # <<>> /\ prev[Len(prev)].cid = cid
             THEN [prev EXCEPT ![Len(prev)].recs = Append(@, recs[n])]
             ELSE Append(prev, [cid |-> cid, recs |-> <<recs[n]>>])

\* groups: defaultdict(list) filled record by record; a dict iterates its keys in
\* the order of their first insertion
RECURSIVE Groups(_)
Groups(recs) ==
    IF recs = <<>> THEN <<>>
    ELSE LET n == Len(recs)
             prev == Groups(SubSeq(recs, 1, n - 1))
             cid == CallIdOf(recs[n])
             hit == {i \in DOMAIN prev : prev[i].cid = cid}
         IN  IF hit = {} THEN Append(prev, [cid |-> cid, recs |-> <<recs[n]>>])
             ELSE [i \in DOMAIN prev |->
                      IF i \in hit THEN [prev[i] EXCEPT !.recs = Append(@, recs[n])]
                      ELSE prev[i]]

\* next((r for r in recs if r.get("method") == "INVITE"), recs[0])
InviteOf(recs) ==
    LET hits == {i \in DOMAIN recs : Get(recs[i], "method", "") = "INVITE"}
    IN  IF hits = {} THEN recs[1] ELSE recs[Min(hits)]

\* str(r.get("response_code", ""))
ResponseCodeStr(r) == IF Has(r, "response_code") THEN ToString(r["response_code"]) ELSE ""

\* the status derivation of _group_calls
GroupStatus(recs) ==
    LET all_methods == {Get(recs[i], "method", "") : i \in DOMAIN recs}
        response_codes == {ResponseCodeStr(recs[i]) : i \in DOMAIN recs}
        has_200 == \/ "200" \in response_codes
                   \/ \E i \in DOMAIN recs : StartsWith(Get(recs[i], "method", ""), "200")
        has_cancel == "CANCEL" \in all_methods
        has_bye == "BYE" \in all_methods
    IN  IF has_bye /\ has_200 THEN "Finished"
        ELSE IF has_200 THEN "Answered"
        ELSE IF has_cancel THEN "Cancelled"
        ELSE IF all_methods = {"INVITE"} \/ all_methods = {"INVITE", ""} THEN "Trying"
        ELSE "Unknown"

\* r.get("create_date") or r.get("micro_ts", 0)
RecordTs(r) == IntOr(Get(r, "create_date", 0), Get(r, "micro_ts", 0))

\* timestamps: the list of the timestamps of the records that carry one
GroupTimestamps(recs) ==
    LET idx == {i \in DOMAIN recs : RecordTs(recs[i]) # 0}
    IN  {RecordTs(recs[i]) : i \in idx}

\* len(timestamps)
GroupTimestampCount(recs) == Cardinality({i \in DOMAIN recs : RecordTs(recs[i]) # 0})

\* a faulty variant of GroupDuration: last timestamp minus first timestamp, in record order
GroupDurationInOrder(recs) ==
    LET idx == {i \in DOMAIN recs : RecordTs(recs[i]) # 0}
    IN  IF Cardinality(idx) >= 2
        THEN RecordTs(recs[Max(idx)]) - RecordTs(recs[Min(idx)])
        ELSE 0

\* duration_ms
GroupDuration(recs) ==
    IF GroupTimestampCount(recs) >= 2
    THEN Max(GroupTimestamps(recs)) - Min(GroupTimestamps(recs))
    ELSE 0

\* methods: sorted(list({r.get("method", "") for r in recs if r.get("method")}))
GroupMethods(recs) ==
    SortedStrs({Get(recs[i], "method", "") : i \in {j \in DOMAIN recs : Get(recs[j], "method", "") # ""}})

\* sorted(recs, key=lambda r: r.get("id", 0))[0]
FirstById(recs) ==
    Items(SortPairs([i \in DOMAIN recs |-> <<Get(recs[i], "id", 0), recs[i]>>]))[1]

\* the summary row of one group. duration_ms is the local of that name, which the
\* code formats into duration_str and does not return; the row keeps it here so
\* that statements about the duration can be made.
GroupRow(cid, recs) ==
    LET invite == InviteOf(recs)
        first == FirstById(recs)
        duration_ms == GroupDuration(recs)
    IN  [callid |-> cid,
         from_user |-> StrOr(Get(invite, "from_user", ""), Get(invite, "caller", "")),
         to_user |-> StrOr(Get(invite, "to_user", ""), Get(invite, "callee", "")),
         src_ip |-> StrOr(Get(invite, "srcIp", ""), Get(invite, "source_ip", "")),
         dst_ip |-> StrOr(Get(invite, "dstIp", ""), Get(invite, "destination_ip", "")),
         methods |-> GroupMethods(recs),
         status |-> GroupStatus(recs),
         create_date |-> IntOr(Get(first, "create_date", 0), 0),
         duration_ms |-> duration_ms,
         duration_str |-> ms_to_hhmmss(duration_ms),
         id |-> Get(first, "id", 0)]

\* rows.sort(key=lambda r: r["create_date"], reverse=True)
SortRows(rs) == Items(SortPairsReverse([i \in DOMAIN rs |-> <<rs[i].create_date, rs[i]>>]))

\* _group_calls(records)
group_calls(recs) ==
    LET groups == Groups(recs)
    IN  SortRows([i \in DOMAIN groups |-> GroupRow(groups[i].cid, groups[i].recs)])

-----------------------------------------------------------------------------
(* _build_call_detail *)

\* transaction.get("data") or {}
DataOf(t) == Get(t, "data", <<>>)

\* data.get("messages") or []
RawMessagesOf(t) == Get(DataOf(t), "messages", <<>>)

\* data.get("hosts") or {}: the dict as the list of its items, in insertion order
RawHostsOf(t) == Get(DataOf(t), "hosts", <<>>)

\* data.get("alias") or {}: the dict as the list of its items
AliasOf(t) == Get(DataOf(t), "alias", <<>>)

\* info["position"] if isinstance(info, dict) else int(info); a bare integer is
\* written [int |-> n]
HostPosition(info) == IF Has(info, "int") THEN info["int"] ELSE info["position"]

\* the exception the same expression raises, "" when it raises none: a dict
\* without "position" (written as the empty dict) is a KeyError, a bare string
\* that is no number (written [str |-> s]) a ValueError from int()
HostPositionError(info) ==
    IF Has(info, "int") \/ Has(info, "position") THEN ""
    ELSE IF Has(info, "str") THEN "ValueError"
    ELSE "KeyError"

\* the exception the dict comprehension hosts_map raises: the one of the first
\* host, in dict order, whose info is malformed
HostsMapError(raw_hosts) ==
    LET bad == {i \in DOMAIN raw_hosts : HostPositionError(raw_hosts[i].info) # ""}
    IN  IF bad = {} THEN "" ELSE HostPositionError(raw_hosts[Min(bad)].info)

\* a faulty variant of HostsMapGet: the place of the host in the dict, not the
\* position the dict gives it
HostsMapGetByOrder(raw_hosts, addr) ==
    LET hit == {i \in DOMAIN raw_hosts : raw_hosts[i].host = addr}
    IN  IF hit = {} THEN -1 ELSE Max(hit) - 1

\* hosts_map.get(addr, -1)
HostsMapGet(raw_hosts, addr) ==
    LET hit == {i \in DOMAIN raw_hosts : raw_hosts[i].host = addr}
    IN  IF hit = {} THEN -1 ELSE HostPosition(raw_hosts[Max(hit)].info)

\* alias_map.get(host, host)
AliasGet(alias, host) ==
    LET hit == {i \in DOMAIN alias : alias[i].host = host}
    IN  IF hit = {} THEN host ELSE alias[Max(hit)].name

\* a faulty variant of SortByMicroTs: no sort, the messages stay in arrival order
SortByMicroTsNot(msgs) == msgs

\* a faulty variant of SortByMicroTs: a sort that is not stable (messages with equal
\* timestamps end in reverse order)
SortByMicroTsUnstable(msgs) ==
    LET rev == [i \in DOMAIN msgs |-> msgs[Len(msgs) + 1 - i]]
    IN  Items(SortPairs([i \in DOMAIN rev |-> <<Get(rev[i], "micro_ts", 0), rev[i]>>]))

\* raw_messages.sort(key=lambda m: m.get("micro_ts", 0))
SortByMicroTs(msgs) ==
    Items(SortPairs([i \in DOMAIN msgs |-> <<Get(msgs[i], "micro_ts", 0), msgs[i]>>]))

\* the transaction after _build_call_detail: the sort is in place, so the list
\* inside the caller's object is reordered, unless hosts_map raised before it
TransactionAfterDetail(t) ==
    IF RawMessagesOf(t) = <<>> \/ HostsMapError(RawHostsOf(t)) # "" THEN t
    ELSE [t EXCEPT !["data"]["messages"] = SortByMicroTs(@)]

\* first_ts = raw_messages[0].get("micro_ts", 0) if raw_messages else 0
FirstTs(raw_messages) ==
    IF raw_messages = <<>> THEN 0 ELSE Get(raw_messages[1], "micro_ts", 0)

\* a faulty variant of FlowCols: one column per mapped position, without the
\* empty columns of the positions no host is mapped to
FlowColsCompact(raw_hosts, alias) ==
    LET used == {HostPosition(raw_hosts[i].info) : i \in DOMAIN raw_hosts}
        RECURSIVE Cols(_)
        Cols(ps) ==
            IF ps = {} THEN <<>>
            ELSE LET c == Max(ps)
                     hit == {i \in DOMAIN raw_hosts : HostPosition(raw_hosts[i].info) = c}
                 IN  Append(Cols(ps \ {c}), AliasGet(alias, raw_hosts[Max(hit)].host))
    IN  Cols(used)

\* flow_cols: [""] * max((v + 1 for v in hosts_map.values()), default=0), then
\* flow_cols[idx] = alias_map.get(host, host) for every host in dict order (a
\* later host on the same position overwrites an earlier one). Python indexes
\* from 0, the sequence from 1.
FlowCols(raw_hosts, alias) ==
    LET n == IF raw_hosts = <<>> THEN 0
             ELSE Max({HostPosition(raw_hosts[i].info) + 1 : i \in DOMAIN raw_hosts})
    IN  [c \in 1..n |->
            LET hit == {i \in DOMAIN raw_hosts : HostPosition(raw_hosts[i].info) = c - 1}
            IN  IF hit = {} THEN "" ELSE AliasGet(alias, raw_hosts[Max(hit)].host)]

\* f"{msg.get('srcIp', '')}:{msg.get('srcPort', '')}" (a port is an int or missing)
Addr(msg, ip, port) ==
    Get(msg, ip, "") \o ":" \o (IF Has(msg, port) THEN ToString(msg[port]) ELSE "")

\* msg.get("payloadType", 1)
PType(msg) == Get(msg, "payloadType", 1)

\* the entry of `messages` built from one SIP record
MessageOf(msg, first_ts) ==
    LET ts_ms == Get(msg, "micro_ts", 0)
    IN  [id |-> Get(msg, "id", None),
         offset_ms |-> ts_ms - first_ts,
         src_addr |-> Addr(msg, "srcIp", "srcPort"),
         dst_addr |-> Addr(msg, "dstIp", "dstPort"),
         method |-> StrOr(Get(msg, "method", ""), ""),
         cseq |-> StrOr(Get(msg, "cseq", ""), ""),
         raw |-> StrOr(Get(msg, "raw", ""), ""),
         create_date |-> IntOr(Get(msg, "create_date", 0), ts_ms),
         ts_ms |-> ts_ms]

\* the entry of `logs` built from one HEP-LOG record
LogOf(msg) ==
    LET ts_ms == Get(msg, "micro_ts", 0)
    IN  [ts_ms |-> ts_ms,
         src_addr |-> Addr(msg, "srcIp", "srcPort"),
         raw |-> StrOr(Get(msg, "raw", ""), ""),
         create_date |-> IntOr(Get(msg, "create_date", 0), ts_ms)]

\* a faulty variant of FlowRowOf: a log row keeps the direction of its record
FlowRowOfDirected(msg, first_ts, raw_hosts, msg_idx) ==
    LET ts_ms == Get(msg, "micro_ts", 0)
        method == StrOr(Get(msg, "method", ""), "")
        raw_text == StrOr(Get(msg, "raw", ""), "")
        src_col == HostsMapGet(raw_hosts, Addr(msg, "srcIp", "srcPort"))
        dst_col == HostsMapGet(raw_hosts, Addr(msg, "dstIp", "dstPort"))
    IN  IF PType(msg) = 1
        THEN [src_col |-> src_col,
              dst_col |-> dst_col,
              label |-> StrOr(method, StrOr(Get(msg, "cseq", ""), "")),
              type |-> "sip",
              method |-> method,
              offset_ms |-> ts_ms - first_ts,
              raw_preview |-> raw_text,
              msg_idx |-> msg_idx,
              msg_id_str |-> IF Has(msg, "id") THEN "[" \o ToString(msg["id"]) \o "]" ELSE ""]
        ELSE [src_col |-> src_col,
              dst_col |-> dst_col,
              label |-> IF raw_text # "" THEN raw_text ELSE "LOG",
              type |-> "log",
              method |-> "",
              offset_ms |-> ts_ms - first_ts,
              raw_preview |-> raw_text]

\* the entry of `flow_rows` built from one record; msg_idx is len(messages) at
\* that point. Every raw text of the model is shorter than 80 characters, so the
\* slices raw_text[:80] and raw_text[:120] are the text itself. The fields that
\* only format the same record for display (method_display, src_port, dst_port,
\* first_sip_line, ts_display, user_agent) are left out.
FlowRowOf(msg, first_ts, raw_hosts, msg_idx) ==
    LET ts_ms == Get(msg, "micro_ts", 0)
        method == StrOr(Get(msg, "method", ""), "")
        raw_text == StrOr(Get(msg, "raw", ""), "")
        src_col == HostsMapGet(raw_hosts, Addr(msg, "srcIp", "srcPort"))
        dst_col == HostsMapGet(raw_hosts, Addr(msg, "dstIp", "dstPort"))
    IN  IF PType(msg) = 1
        THEN [src_col |-> src_col,
              dst_col |-> dst_col,
              label |-> StrOr(method, StrOr(Get(msg, "cseq", ""), "")),
              type |-> "sip",
              method |-> method,
              offset_ms |-> ts_ms - first_ts,
              raw_preview |-> raw_text,
              msg_idx |-> msg_idx,
              msg_id_str |-> IF Has(msg, "id") THEN "[" \o ToString(msg["id"]) \o "]" ELSE ""]
        ELSE [src_col |-> dst_col,
              dst_col |-> dst_col,
              label |-> IF raw_text # "" THEN raw_text ELSE "LOG",
              type |-> "log",
              method |-> "",
              offset_ms |-> ts_ms - first_ts,
              raw_preview |-> raw_text]

\* the records of the sorted list the loop turns into output: ptype 1 and 100
SipIndexes(raw_messages) == {i \in DOMAIN raw_messages : PType(raw_messages[i]) = 1}
LogIndexes(raw_messages) == {i \in DOMAIN raw_messages : PType(raw_messages[i]) = 100}

\* the items of seq at the indexes idx, in order
RECURSIVE Pick(_, _)
Pick(seq, idx) ==
    IF idx = {} THEN <<>>
    ELSE LET i == Max(idx) IN Append(Pick(seq, idx \ {i}), seq[i])

\* a faulty variant of find_response_ts: the status code is not compared, any
\* response matches
find_response_ts_any_code(raw_messages, code) ==
    LET hit == {i \in DOMAIN raw_messages :
                   StartsWith(StrOr(Get(raw_messages[i], "raw", ""), ""), "SIP/2.0 ")}
    IN  IF hit = {} THEN 0 ELSE IntOr(Get(raw_messages[Min(hit)], "micro_ts", 0), 0)

\* _find_response_ts: the timestamp of the first message whose raw text starts
\* with "SIP/2.0 <code>" (msg.get("micro_ts") or 0), 0 when there is none
find_response_ts(raw_messages, code) ==
    LET hit == {i \in DOMAIN raw_messages :
                   LET raw == StrOr(Get(raw_messages[i], "raw", ""), "")
                   IN  \/ StartsWith(raw, "SIP/2.0 " \o code)
                       \/ StartsWith(raw, "SIP/2.0 " \o code \o " ")}
    IN  IF hit = {} THEN 0 ELSE IntOr(Get(raw_messages[Min(hit)], "micro_ts", 0), 0)

\* next((r.get(key, "") for r in raw_messages if r.get("method") == "INVITE"), "")
InviteField(raw_messages, key) ==
    LET hit == {i \in DOMAIN raw_messages : Get(raw_messages[i], "method", "") = "INVITE"}
    IN  IF hit = {} THEN "" ELSE Get(raw_messages[Min(hit)], key, "")

\* a faulty variant of MethodTs: the timestamp of the last message of the method
MethodTsLast(messages, method, default) ==
    LET hit == {i \in DOMAIN messages : messages[i].method = method}
    IN  IF hit = {} THEN default ELSE messages[Max(hit)].ts_ms

\* next((m["ts_ms"] for m in messages if m.get("method") == method), default)
MethodTs(messages, method, default) ==
    LET hit == {i \in DOMAIN messages : messages[i].method = method}
    IN  IF hit = {} THEN default ELSE messages[Min(hit)].ts_ms

\* the status derivation of _build_session: status starts as "Unknown" and
\* every branch of the chain assigns it
SessionStatus(messages, raw_messages) ==
    LET all_methods == {messages[i].method : i \in DOMAIN messages}
        has_bye == "BYE" \in all_methods
        ok_ts == find_response_ts(raw_messages, "200")
    IN  IF has_bye /\ ok_ts # 0 THEN "Finished"
        ELSE IF ok_ts # 0 THEN "Answered"
        ELSE IF "CANCEL" \in all_methods THEN "Cancelled"
        ELSE "In Progress"

\* method_counts: how often each non-empty method occurs in messages
MethodCounts(messages) ==
    LET ms == {messages[i].method : i \in DOMAIN messages} \ {""}
    IN  [m \in ms |-> Cardinality({i \in DOMAIN messages : messages[i].method = m})]

\* _build_session(messages, raw_messages, data). duration_ms is the local of
\* that name, returned by the code as duration_str and duration_sec.
build_session(messages, raw_messages) ==
    LET has_invite == \E i \in DOMAIN messages : messages[i].method = "INVITE"
        invite_msg == messages[Min({i \in DOMAIN messages : messages[i].method = "INVITE"})]
        callid0 == IF has_invite THEN InviteField(raw_messages, "callid") ELSE ""
        callid == IF callid0 = "" /\ raw_messages # <<>>
                  THEN Get(raw_messages[1], "callid", "") ELSE callid0
        ruri_user == InviteField(raw_messages, "ruri_user")
        ruri_domain == InviteField(raw_messages, "ruri_domain")
        ts_list == {messages[i].ts_ms : i \in {j \in DOMAIN messages : messages[j].ts_ms # 0}}
        first_ts == IF ts_list # {} THEN Min(ts_list) ELSE 0
        last_ts == IF ts_list # {} THEN Max(ts_list) ELSE 0
        invite_ts == MethodTs(messages, "INVITE", first_ts)
        ringing_ts == find_response_ts(raw_messages, "180")
        ok_ts == find_response_ts(raw_messages, "200")
        bye_ts == MethodTs(messages, "BYE", last_ts)
        duration_ms == IF ok_ts # 0 /\ bye_ts # 0 THEN bye_ts - ok_ts ELSE last_ts - first_ts
    IN  [callid |-> callid,
         from_user |-> IF has_invite THEN InviteField(raw_messages, "from_user") ELSE "",
         to_user |-> IF has_invite THEN InviteField(raw_messages, "to_user") ELSE "",
         ruri |-> IF ~has_invite THEN ""
                  ELSE IF ruri_domain # "" THEN ruri_user \o "@" \o ruri_domain ELSE ruri_user,
         src_addr |-> IF has_invite THEN invite_msg.src_addr ELSE "",
         dst_addr |-> IF has_invite THEN invite_msg.dst_addr ELSE "",
         status |-> SessionStatus(messages, raw_messages),
         duration_ms |-> duration_ms,
         duration_str |-> ms_to_hhmmss(duration_ms),
         duration_sec |-> duration_ms \div 1000,
         ringing_ms |-> IF ringing_ts # 0 /\ invite_ts # 0 THEN ringing_ts - invite_ts ELSE 0,
         setup_ms |-> IF ok_ts # 0 /\ invite_ts # 0 THEN ok_ts - invite_ts ELSE 0,
         disconnect_ms |-> IF bye_ts # 0 /\ last_ts # 0 THEN last_ts - bye_ts ELSE 0,
         method_counts |-> MethodCounts(messages)]

\* [m for m in msgs if m.get("payloadType", 1) == 1]
IsSip(msg) == PType(msg) = 1
IsLog(msg) == PType(msg) = 100

\* a faulty variant of DetailOf: msg_idx is the place of the row in flow_rows,
\* log rows counted
DetailOfRowIndex(t, raw_messages, first_ts) ==
    LET raw_hosts == RawHostsOf(t)
        sip == SipIndexes(raw_messages)
        shown == Pick([j \in DOMAIN raw_messages |-> j], sip \cup LogIndexes(raw_messages))
        sip_seq == SelectSeq(raw_messages, IsSip)
        log_seq == SelectSeq(raw_messages, IsLog)
        messages == [k \in DOMAIN sip_seq |-> MessageOf(sip_seq[k], first_ts)]
    IN  [messages |-> messages,
         flow_cols |-> FlowCols(raw_hosts, AliasOf(t)),
         flow_rows |-> [k \in DOMAIN shown |->
                           FlowRowOf(raw_messages[shown[k]], first_ts, raw_hosts, k - 1)],
         session |-> build_session(messages, raw_messages),
         logs |-> [k \in DOMAIN log_seq |-> LogOf(log_seq[k])],
         total_messages |-> Len(messages),
         first_ts_ms |-> first_ts]

\* the body of _build_call_detail from the loop on: the dict it returns for
\* the sorted list raw_messages and the reference time first_ts
DetailOf(t, raw_messages, first_ts) ==
    LET raw_hosts == RawHostsOf(t)
        sip == SipIndexes(raw_messages)
        shown == Pick([j \in DOMAIN raw_messages |-> j], sip \cup LogIndexes(raw_messages))
        sip_seq == SelectSeq(raw_messages, IsSip)
        log_seq == SelectSeq(raw_messages, IsLog)
        messages == [k \in DOMAIN sip_seq |-> MessageOf(sip_seq[k], first_ts)]
    IN  [messages |-> messages,
         flow_cols |-> FlowCols(raw_hosts, AliasOf(t)),
         flow_rows |-> [k \in DOMAIN shown |->
                           FlowRowOf(raw_messages[shown[k]], first_ts, raw_hosts,
                                     Cardinality({j \in sip : j < shown[k]}))],
         session |-> build_session(messages, raw_messages),
         logs |-> [k \in DOMAIN log_seq |-> LogOf(log_seq[k])],
         total_messages |-> Len(messages),
         first_ts_ms |-> first_ts]

\* a faulty variant of build_call_detail: first_ts read before the list is sorted
build_call_detail_first_ts_early(t) ==
    DetailOf(t, SortByMicroTs(RawMessagesOf(t)), FirstTs(RawMessagesOf(t)))

\* _build_call_detail(transaction): the dict it returns
build_call_detail(t) ==
    LET raw_messages == SortByMicroTs(RawMessagesOf(t))
    IN  DetailOf(t, raw_messages, FirstTs(raw_messages))

\* what a call _build_call_detail(transaction) ends in: the dict it returns, or
\* the exception that leaves it, written [raised |-> name]
build_call_detail_outcome(t) ==
    IF HostsMapError(RawHostsOf(t)) # "" THEN [raised |-> HostsMapError(RawHostsOf(t))]
    ELSE build_call_detail(t)

-----------------------------------------------------------------------------
(* _call_summary_from_transaction *)

\* the status derivation of _call_summary_from_transaction
SummaryStatus(sip_msgs) ==
    LET all_methods == {Get(sip_msgs[i], "method", "") : i \in DOMAIN sip_msgs}
        has_200 == \E i \in DOMAIN sip_msgs : StartsWith(Get(sip_msgs[i], "raw", ""), "SIP/2.0 200")
        has_cancel == "CANCEL" \in all_methods
        has_bye == "BYE" \in all_methods
    IN  IF has_bye /\ has_200 THEN "Finished"
        ELSE IF has_200 THEN "Answered"
        ELSE IF has_cancel THEN "Cancelled"
        ELSE IF all_methods \subseteq {"INVITE", ""} THEN "Trying"
        ELSE "Unknown"

\* _call_summary_from_transaction(callid, transaction): the row, or None when
\* the response holds no SIP message. sip_msgs is a new list, so its sort leaves
\* the response alone. duration_ms is the local of that name, returned by the
\* code as duration_str only.
call_summary_from_transaction(callid, t) ==
    LET all_msgs == RawMessagesOf(t)
        sip_msgs == SortByMicroTs(SelectSeq(all_msgs, IsSip))
        invite == InviteOf(sip_msgs)
        idx == {i \in DOMAIN sip_msgs : Get(sip_msgs[i], "micro_ts", 0) # 0}
        timestamps == {Get(sip_msgs[i], "micro_ts", 0) : i \in idx}
        duration_ms == IF Cardinality(idx) >= 2 THEN Max(timestamps) - Min(timestamps) ELSE 0
    IN  IF sip_msgs = <<>> THEN None
        ELSE [callid |-> callid,
              from_user |-> Get(invite, "from_user", ""),
              to_user |-> Get(invite, "to_user", ""),
              src_ip |-> Get(invite, "srcIp", ""),
              dst_ip |-> Get(invite, "dstIp", ""),
              methods |-> SortedStrs({Get(sip_msgs[i], "method", "") : i \in DOMAIN sip_msgs} \ {""}),
              status |-> SummaryStatus(sip_msgs),
              create_date |-> Get(sip_msgs[1], "micro_ts", 0),
              duration_ms |-> duration_ms,
              duration_str |-> ms_to_hhmmss(duration_ms),
              id |-> Get(sip_msgs[1], "id", 0)]

-----------------------------------------------------------------------------
(* The admin guard: src/app/security/basic_auth.py *)

\* a faulty variant of verify_credentials: the password is not compared
verify_credentials_username_only(credentials, env) ==
    Chars(credentials.username) = Chars(Get(env, "ADMIN_USERNAME", "admin"))

\* verify_credentials: secrets.compare_digest on the UTF-8 bytes of the user
\* name and of the password (the strings of the model are ASCII, so the bytes
\* are the code points)
verify_credentials(credentials, env) ==
    LET correct_username == Get(env, "ADMIN_USERNAME", "admin")
        correct_password == Get(env, "ADMIN_PASSWORD", "changeme")
        username_correct == Chars(credentials.username) = Chars(correct_username)
        password_correct == Chars(credentials.password) = Chars(correct_password)
    IN  username_correct /\ password_correct

\* Depends(requires_admin): the HTTPException it raises, as the page the client
\* gets, or the empty dict when the request may go on to the handler.
\* opt_credentials is {} for a request without Authorization header, which
\* HTTPBasic() itself answers with 401.
requires_admin(opt_credentials, env) ==
    IF opt_credentials = {}
    THEN [status |-> 401, detail |-> "Not authenticated"]
    ELSE IF ~verify_credentials(CHOOSE c \in opt_credentials : TRUE, env)
    THEN [status |-> 401, detail |-> "Invalid credentials"]
    ELSE <<>>

-----------------------------------------------------------------------------
(* The client of the capture backend: src/app/services/homer.py *)

\* a cached token is reused until 60 s before its expiry
TokenMargin == 60

\* a token whose expiry cannot be decoded is cached for one hour
TokenDefaultLife == 3600

\* limit of search_calls and of the transaction payload
SearchLimit == 200

\* the hours of the window of a transaction fetch: window_ms is 3_600_000 by
\* default and 30 * 24 * 3_600_000 for the search by call id
WindowHoursDefault == 1
WindowHoursCallId == 720

\* the default of the query parameter hours
HoursDefault == 168

\* an answer of the backend that is a failure: [fail |-> kind]
Failed(answer) == Has(answer, "fail")

\* str(exc) of the exception a failed call raises; search_calls builds its own
\* RuntimeError text (the body of the response is empty here), the other texts
\* are those of the HTTP library, abbreviated
ErrorText(op, kind) ==
    IF kind = "unreachable" THEN "All connection attempts failed"
    ELSE IF op = "search" THEN "Homer search returned HTTP 500: "
    ELSE IF op = "login" THEN "Client error '401 Unauthorized' for url '/api/v3/auth'"
    ELSE "Server error '500 Internal Server Error' for url '/api/v3/call/transaction'"

\* a faulty variant of ensure_token: the cached token is used until its expiry,
\* without the margin
ensure_token_no_margin(cache, now, login) ==
    IF cache.token # "" /\ now < cache.exp
    THEN [error |-> {}, token |-> cache.token, cache |-> cache, calls |-> <<>>]
    ELSE IF Failed(login)
    THEN [error |-> {ErrorText("login", login.fail)}, token |-> "", cache |-> cache,
          calls |-> <<[op |-> "login", ok |-> FALSE]>>]
    ELSE [error |-> {}, token |-> login.token,
          cache |-> [token |-> login.token,
                     exp |-> IF login.exp = 0 THEN now + TokenDefaultLife ELSE login.exp],
          calls |-> <<[op |-> "login", ok |-> TRUE]>>]

\* a faulty variant of ensure_token: a failed login is tried a second time
ensure_token_retry(cache, now, login) ==
    IF cache.token # "" /\ now < cache.exp - TokenMargin
    THEN [error |-> {}, token |-> cache.token, cache |-> cache, calls |-> <<>>]
    ELSE IF Failed(login)
    THEN [error |-> {ErrorText("login", login.fail)}, token |-> "", cache |-> cache,
          calls |-> <<[op |-> "login", ok |-> FALSE], [op |-> "login", ok |-> FALSE]>>]
    ELSE [error |-> {}, token |-> login.token,
          cache |-> [token |-> login.token,
                     exp |-> IF login.exp = 0 THEN now + TokenDefaultLife ELSE login.exp],
          calls |-> <<[op |-> "login", ok |-> TRUE]>>]

\* _ensure_token: the cached token while it is valid for more than 60 s, else
\* one _login whose token and expiry replace the cache. login is the answer of
\* the backend: a failure, or the token with the expiry _decode_exp reads from
\* it (0 when it cannot be decoded). error is {} or {str(exc)}.
ensure_token(cache, now, login) ==
    IF cache.token # "" /\ now < cache.exp - TokenMargin
    THEN [error |-> {}, token |-> cache.token, cache |-> cache, calls |-> <<>>]
    ELSE IF Failed(login)
    THEN [error |-> {ErrorText("login", login.fail)}, token |-> "", cache |-> cache,
          calls |-> <<[op |-> "login", ok |-> FALSE]>>]
    ELSE [error |-> {}, token |-> login.token,
          cache |-> [token |-> login.token,
                     exp |-> IF login.exp = 0 THEN now + TokenDefaultLife ELSE login.exp],
          calls |-> <<[op |-> "login", ok |-> TRUE]>>]

\* get_homer_client: RuntimeError when one of HOMER_URL, HOMER_USERNAME,
\* HOMER_PASSWORD is empty after strip(), else the token of _ensure_token
get_homer_client(env, cache, now, login) ==
    LET homer_url == strip(Get(env, "HOMER_URL", ""))
        homer_user == strip(Get(env, "HOMER_USERNAME", ""))
        homer_pass == strip(Get(env, "HOMER_PASSWORD", ""))
    IN  IF ~(homer_url # "" /\ homer_user # "" /\ homer_pass # "")
        THEN [error |-> {"Homer is not configured. Set HOMER_URL, HOMER_USERNAME, and HOMER_PASSWORD."},
              token |-> "", cache |-> cache, calls |-> <<>>]
        ELSE ensure_token(cache, now, login)

\* the keys of field_map, in its order, with the native field names
FieldMap ==
    <<<<"callid", "data_header.callid">>, <<"from_user", "data_header.from_user">>,
      <<"to_user", "data_header.to_user">>, <<"method", "data_header.method">>,
      <<"source_ip", "data_header.src_ip">>, <<"dst_ip", "data_header.dst_ip">>,
      <<"from_tag", "data_header.from_tag">>, <<"to_tag", "data_header.to_tag">>>>

\* _build_homer_filters: one native filter per key whose value is non-empty
\* after strip(), in the order of field_map
build_homer_filters(filters) ==
    LET val(k) == strip(StrOr(Get(filters, FieldMap[k][1], ""), ""))
        used == {k \in DOMAIN FieldMap : val(k) # ""}
    IN  Pick([k \in DOMAIN FieldMap |->
                 [name |-> FieldMap[k][2], value |-> val(k), type |-> "string", hepid |-> 1]],
             used)

\* search_calls: one POST /api/v3/search/call/data; a response that is not a
\* success raises RuntimeError, else the records are unwrapped from "data" or
\* "results"
search_calls(filters, hours, answer) ==
    LET call == [op |-> "search", ok |-> ~Failed(answer), filters |-> build_homer_filters(filters),
                 limit |-> SearchLimit, hours |-> hours]
    IN  IF Failed(answer)
        THEN [error |-> {ErrorText("search", answer.fail)}, records |-> <<>>, calls |-> <<call>>]
        ELSE [error |-> {},
              records |-> IF Get(answer, "data", <<>>) # <<>> THEN answer["data"]
                          ELSE Get(answer, "results", <<>>),
              calls |-> <<call>>]

\* get_call_transaction: one POST /api/v3/call/transaction for the call id and
\* the record id, in the window around ts; raise_for_status raises on failure
get_call_transaction(callid, record_id, ts, window_hours, answer) ==
    LET call == [op |-> "transaction", ok |-> ~Failed(answer), callid |-> callid,
                 id |-> record_id, ts |-> ts, window_hours |-> window_hours,
                 limit |-> SearchLimit]
    IN  IF Failed(answer)
        THEN [error |-> {ErrorText("transaction", answer.fail)}, transaction |-> <<>>,
              calls |-> <<call>>]
        ELSE [error |-> {}, transaction |-> answer, calls |-> <<call>>]

-----------------------------------------------------------------------------
(* The routes: src/app/routes/homer.py, src/app/routes/auth.py, src/app/main.py *)

\* _HOMER_ENABLED
HomerEnabled(env) == lower(Get(env, "ENABLE_HOMER", "false")) = "true"

\* the filters dict of homer_index, from the query parameters that are present
IndexFilters(q) ==
    [callid |-> StrOr(Get(q, "callid", ""), ""),
     from_user |-> StrOr(Get(q, "from_user", ""), ""),
     to_user |-> StrOr(Get(q, "to_user", ""), ""),
     method |-> StrOr(Get(q, "method", ""), ""),
     source_ip |-> StrOr(Get(q, "src_ip", ""), ""),
     dst_ip |-> StrOr(Get(q, "dst_ip", ""), ""),
     from_tag |-> StrOr(Get(q, "from_tag", ""), ""),
     to_tag |-> StrOr(Get(q, "to_tag", ""), "")]

\* callid_only = bool(filters["callid"]) and not any(other_filters)
CallIdOnly(filters) ==
    /\ filters["callid"] # ""
    /\ \A k \in {"from_user", "to_user", "method", "source_ip", "dst_ip", "from_tag", "to_tag"} :
          filters[k] = ""

\* str(exc) of the exception that left _build_call_detail
ExceptionText(name) ==
    IF name = "KeyError" THEN "'position'"
    ELSE "invalid literal for int() with base 10: 'x'"

\* homer_index, from the flag check to the template response: the page, the
\* backend calls made, the token cache afterwards, and the locals the engine
\* worked on. A page field that is None or a str is {} or {str}. latency_ms, the
\* current user and the CSRF token are left out.
homer_index(req, env, cache, be) ==
    LET q == req.query
        filters == IndexFilters(q)
        hours == Get(q, "hours", HoursDefault)
        idle == [calls |-> <<>>, cache |-> cache, records |-> <<>>, rows |-> <<>>,
                 transaction |-> <<>>, summary |-> None]
        Page(call_list, searched, error) ==
            [status |-> 200, template |-> "homer/index.html.j2", filters |-> filters,
             hours |-> hours, calls |-> call_list, searched |-> searched, error |-> error]
        hc == get_homer_client(env, cache, req.now, be.login)
        fetched == get_call_transaction(filters["callid"], 0, "now", WindowHoursCallId, be.transaction)
        found == search_calls(filters, hours, be.search)
        one == call_summary_from_transaction(filters["callid"], fetched.transaction)
    IN  IF ~HomerEnabled(env)
        THEN [page |-> [status |-> 303, location |-> "/"]] @@ idle
        ELSE IF ~Has(q, "search")
        THEN [page |-> Page(<<>>, FALSE, {})] @@ idle
        ELSE IF hc.error # {}
        THEN [page |-> Page(<<>>, TRUE, hc.error), calls |-> hc.calls, cache |-> hc.cache] @@ idle
        ELSE IF CallIdOnly(filters)
        THEN IF fetched.error # {}
             THEN [page |-> Page(<<>>, TRUE, fetched.error), calls |-> hc.calls \o fetched.calls,
                   cache |-> hc.cache] @@ idle
             ELSE [page |-> Page(IF one = None THEN <<>> ELSE <<one>>, TRUE, {}),
                   calls |-> hc.calls \o fetched.calls, cache |-> hc.cache,
                   transaction |-> fetched.transaction, summary |-> one] @@ idle
        ELSE IF found.error # {}
             THEN [page |-> Page(<<>>, TRUE, found.error), calls |-> hc.calls \o found.calls,
                   cache |-> hc.cache] @@ idle
             ELSE [page |-> Page(group_calls(found.records), TRUE, {}),
                   calls |-> hc.calls \o found.calls, cache |-> hc.cache,
                   records |-> found.records, rows |-> group_calls(found.records)] @@ idle

\* homer_call_detail, from the flag check to the template response. The dict
\* of _build_call_detail is spread into the template context (**detail); when
\* the try block raised, detail is still {} and error is str(exc).
homer_call_detail(req, env, cache, be) ==
    LET q == req.query
        idle == [calls |-> <<>>, cache |-> cache, transaction |-> <<>>, after |-> <<>>,
                 detail |-> <<>>]
        Page(error, detail_dict) ==
            detail_dict @@
            [status |-> 200, template |-> "homer/call.html.j2", callid |-> q["callid"],
             record_id |-> Field("id", IF Has(q, "id") THEN {q["id"]} ELSE {}),
             tab |-> Get(q, "tab", "flow"), error |-> error]
        hc == get_homer_client(env, cache, req.now, be.login)
        ts == IF Get(q, "ts", 0) # 0 THEN ToString(q["ts"]) ELSE "now"
        fetched == get_call_transaction(q["callid"], Get(q, "id", 0), ts, WindowHoursDefault,
                                        be.transaction)
        built == build_call_detail_outcome(fetched.transaction)
    IN  IF ~HomerEnabled(env)
        THEN [page |-> [status |-> 303, location |-> "/"]] @@ idle
        ELSE IF hc.error # {}
        THEN [page |-> Page(hc.error, <<>>), calls |-> hc.calls, cache |-> hc.cache] @@ idle
        ELSE IF fetched.error # {}
        THEN [page |-> Page(fetched.error, <<>>), calls |-> hc.calls \o fetched.calls,
              cache |-> hc.cache] @@ idle
        ELSE IF Has(built, "raised")
        THEN [page |-> Page({ExceptionText(built.raised)}, <<>>),
              calls |-> hc.calls \o fetched.calls, cache |-> hc.cache,
              transaction |-> fetched.transaction, after |-> fetched.transaction] @@ idle
        ELSE [page |-> Page({}, built), calls |-> hc.calls \o fetched.calls, cache |-> hc.cache,
              transaction |-> fetched.transaction,
              after |-> TransactionAfterDetail(fetched.transaction), detail |-> built] @@ idle

\* homer_call_export: the raw transaction as JSON, or {"error": str(exc)} with
\* status 500 (the Content-Disposition header is left out)
homer_call_export(req, env, cache, be) ==
    LET q == req.query
        idle == [calls |-> <<>>, cache |-> cache, transaction |-> <<>>]
        hc == get_homer_client(env, cache, req.now, be.login)
        ts == IF Get(q, "ts", 0) # 0 THEN ToString(q["ts"]) ELSE "now"
        fetched == get_call_transaction(q["callid"], Get(q, "id", 0), ts, WindowHoursDefault,
                                        be.transaction)
    IN  IF ~HomerEnabled(env)
        THEN [page |-> [status |-> 303, location |-> "/"]] @@ idle
        ELSE IF hc.error # {}
        THEN [page |-> [status |-> 500, json |-> [error |-> hc.error]], calls |-> hc.calls,
              cache |-> hc.cache] @@ idle
        ELSE IF fetched.error # {}
        THEN [page |-> [status |-> 500, json |-> [error |-> fetched.error]],
              calls |-> hc.calls \o fetched.calls, cache |-> hc.cache] @@ idle
        ELSE [page |-> [status |-> 200, json |-> fetched.transaction],
              calls |-> hc.calls \o fetched.calls, cache |-> hc.cache,
              transaction |-> fetched.transaction] @@ idle

\* the routes of the model that carry dependencies=[Depends(requires_admin)],
\* and those that do not
GuardedRoutes == {"/homer", "/homer/call/{callid}", "/homer/call/{callid}/export.json"}
OpenRoutes == {"/health", "/logout"}

-----------------------------------------------------------------------------
(* The token provider, step by step: src/app/services/homer.py *)

\* _decode_exp: the "exp" of the payload segment of a token, 0.0 when the token
\* has not three segments, when the payload is not base64 of a JSON object, when
\* the object has no "exp", or when float() refuses its value. A token is
\* written by what its text is made of: [text, segments, decodable, exp], exp
\* being {} or {[num |-> n]} or {[str |-> s]}.
decode_exp(token) ==
    IF token.segments # 3 THEN 0
    ELSE IF ~token.decodable THEN 0
    ELSE IF token.exp = {} THEN 0
    ELSE LET e == CHOOSE x \in token.exp : TRUE
         IN  IF Has(e, "num") THEN e["num"] ELSE 0

\* what _login returns for a token of the backend, with the expiry that
\* _decode_exp reads from it
login_answer(token) == [token |-> token.text, exp |-> decode_exp(token)]

\* if _token and time.time() < _token_exp - 60
token_cached(cache, now) == cache.token # "" /\ now < cache.exp - TokenMargin

\* a faulty variant of store_login: the expiry is always one hour from now
store_login_default_life(login, now) ==
    [token |-> login.token, exp |-> now + TokenDefaultLife]

\* _token = await _login(...); _token_exp = _decode_exp(_token); one hour from
\* now when it is 0.0. No await stands between the assignments.
store_login(login, now) ==
    [token |-> login.token,
     exp |-> IF login.exp = 0 THEN now + TokenDefaultLife ELSE login.exp]

-----------------------------------------------------------------------------
(* The dispatch cache: src/app/services/cache.py *)

\* seconds before a full re-fetch
TTL == 30

\* get(url): _store.setdefault(url, {...}); the store afterwards and the entry
get(st, url) ==
    LET created == [data |-> <<>>, latency |-> 0, ts |-> 0]
    IN  IF url \in DOMAIN st THEN [store |-> st, entry |-> st[url]]
        ELSE [store |-> (url :> created) @@ st, entry |-> created]

\* set(url, data, latency): _store[url] = {..., "ts": time.monotonic()}
set(st, url, data, latency, now) ==
    (url :> [data |-> data, latency |-> latency, ts |-> now]) @@ st

\* invalidate(url): ts = 0.0 when the url is in the store
invalidate(st, url) ==
    IF url \in DOMAIN st THEN [st EXCEPT ![url].ts = 0] ELSE st

\* is_fresh(url): time.monotonic() - _store.get(url, {}).get("ts", 0.0) < TTL
is_fresh(st, url, now) ==
    now - (IF url \in DOMAIN st THEN st[url].ts ELSE 0) < TTL

-----------------------------------------------------------------------------
(* Flash messages: src/app/utils/flash.py *)

\* _SESSION_KEY
SessionKey == "_flash"

\* flash(request, message, kind): request.session["_flash"] = {...}
flash(sess, message, kind) ==
    (SessionKey :> [message |-> message, kind |-> kind]) @@ sess

\* a faulty variant of get_flash: the message is read and left in the session
get_flash_keep(sess) ==
    IF SessionKey \in DOMAIN sess
    THEN [session |-> sess, message |-> {sess[SessionKey].message}, kind |-> {sess[SessionKey].kind}]
    ELSE [session |-> sess, message |-> {}, kind |-> {}]

\* get_flash(request): request.session.pop("_flash", None); the session
\* afterwards and the pair returned, None being {} and a string s being {s}
get_flash(sess) ==
    IF SessionKey \in DOMAIN sess
    THEN [session |-> [k \in (DOMAIN sess) \ {SessionKey} |-> sess[k]],
          message |-> {sess[SessionKey].message}, kind |-> {sess[SessionKey].kind}]
    ELSE [session |-> sess, message |-> {}, kind |-> {}]

-----------------------------------------------------------------------------
(* Inputs: what the capture backend may return *)

\* all lists over D of length <= n
SeqsUpTo(D, n) == UNION {[1..k -> D] : k \in 0..n}

\* a search batch: the capture system numbers the records (id) in the order it
\* returns them and each record names its caller
Batch(fields) ==
    [i \in DOMAIN fields |-> [id |-> i, from_user |-> "user" \o ToString(i)] @@ fields[i]]

\* the ways a search record carries its call id: not at all, as "callid", as
\* "call_id", with an empty "callid" next to a "call_id", or as both
CallIdFields ==
    {<<>>, [callid |-> "abc"], [call_id |-> "abc"],
     [callid |-> "", call_id |-> "xyz"], [callid |-> "xyz", call_id |-> "abc"]}

\* search records that differ in how they name their call
KeyRecords ==
    {c @@ Field("method", m) @@ [create_date |-> 1000] :
        c \in CallIdFields, m \in {{}, {"INVITE"}}}

\* search records that differ in their timestamps
TimeRecords ==
    {Field("callid", c) @@ Field("create_date", d) @@ Field("micro_ts", u) :
        c \in {{"abc"}, {"xyz"}},
        d \in {{}, {1000}, {62000}},
        u \in {{}, {3725000}}}

\* the ways a search record carries a request or a response: by its method,
\* or by its response code alone
MethodFields ==
    {<<>>, [method |-> "INVITE"], [method |-> "180"], [method |-> "200"],
     [method |-> "BYE"], [method |-> "CANCEL"], [response_code |-> 200]}

\* search records that differ in their SIP method and response code
StatusRecords ==
    {Field("callid", c) @@ m @@ [create_date |-> 1000] :
        c \in {{}, {"abc"}}, m \in MethodFields}

KeyBatches == {Batch(f) : f \in SeqsUpTo(KeyRecords, MaxRecs)}
TimeBatches == {Batch(f) : f \in SeqsUpTo(TimeRecords, MaxRecs)}
StatusBatches == {Batch(f) : f \in SeqsUpTo(StatusRecords, MaxRecs)}

\* the two endpoints of the call
UacAddr == [srcIp |-> "10.0.0.1", srcPort |-> 5060, dstIp |-> "10.0.0.2", dstPort |-> 5060]
UasAddr == [srcIp |-> "10.0.0.2", srcPort |-> 5060, dstIp |-> "10.0.0.1", dstPort |-> 5060]

\* the i-th record of a transaction response, of the given kind, with the
\* timestamp ts (ts is {} when the record has no micro_ts)
Message(i, kind, ts) ==
    [id |-> i, callid |-> "abc"] @@ Field("micro_ts", ts) @@
    CASE kind = "INVITE" ->
            [payloadType |-> 1, method |-> "INVITE", raw |-> "INVITE sip:bob SIP/2.0",
             from_user |-> "alice", to_user |-> "bob", ruri_user |-> "bob",
             ruri_domain |-> "example.com"] @@ UacAddr
      [] kind = "180" ->
            [method |-> "180", raw |-> "SIP/2.0 180 Ringing"] @@ UasAddr
      [] kind = "200" ->
            [payloadType |-> 1, method |-> "200", raw |-> "SIP/2.0 200 OK"] @@ UasAddr
      [] kind = "BYE" ->
            [payloadType |-> 1, method |-> "BYE", raw |-> "BYE sip:bob SIP/2.0"] @@ UacAddr
      [] kind = "CANCEL" ->
            [payloadType |-> 1, method |-> "CANCEL", raw |-> "CANCEL sip:bob SIP/2.0"] @@ UacAddr
      [] kind = "LOG" ->
            [payloadType |-> 100, raw |-> "log " \o ToString(i)] @@ UasAddr
      [] kind = "OTHER" ->
            [payloadType |-> 5, raw |-> "rtcp report"]

\* the topologies of a transaction response: none, or both endpoints with an
\* alias for the first
Topologies ==
    {[hosts |-> <<>>, alias |-> <<>>],
     [hosts |-> <<[host |-> "10.0.0.1:5060", info |-> [position |-> 0]],
                  [host |-> "10.0.0.2:5060", info |-> [position |-> 1]]>>,
      alias |-> <<[host |-> "10.0.0.1:5060", name |-> "pbx"]>>]}

\* a transaction response
Transaction(msgs, topo) ==
    [data |-> [messages |-> msgs, hosts |-> topo.hosts, alias |-> topo.alias]]

\* the records a transaction response is made of: a kind and a timestamp ({}
\* for a record without micro_ts)
MessageShapes ==
    {<<"INVITE", {}>>, <<"INVITE", {1200}>>,
     <<"180", {1200}>>,
     <<"200", {}>>, <<"200", {1200}>>, <<"200", {9000}>>,
     <<"BYE", {1200}>>, <<"BYE", {9000}>>,
     <<"CANCEL", {9000}>>,
     <<"LOG", {}>>, <<"LOG", {1200}>>, <<"LOG", {9000}>>,
     <<"OTHER", {}>>, <<"OTHER", {9000}>>}

MessageLists ==
    {[i \in DOMAIN f |-> Message(i, f[i][1], f[i][2])] : f \in SeqsUpTo(MessageShapes, MaxMsgs)}

FullTopology == CHOOSE topo \in Topologies : topo.hosts # <<>>
NoTopology == CHOOSE topo \in Topologies : topo.hosts = <<>>

\* transaction responses of up to MaxMsgs records with the topology of the call,
\* and responses of at most one record without topology
DetailTransactions ==
    {Transaction(msgs, FullTopology) : msgs \in MessageLists}
    \cup {Transaction(msgs, NoTopology) : msgs \in {m \in MessageLists : Len(m) <= 1}}

\* the call INVITE at t, 180 at t+500, 200 at t+1200, BYE at t+9000, with the
\* records in any order
ScenarioTransactions ==
    LET kinds == <<"INVITE", "180", "200", "BYE">>
        at == <<0, 500, 1200, 9000>>
        perms == {p \in [1..4 -> 1..4] : \A i, j \in 1..4 : p[i] = p[j] => i = j}
    IN  {Transaction([i \in 1..4 |-> Message(i, kinds[p[i]], {t + at[p[i]]})],
                     FullTopology) :
            p \in perms, t \in 0..MaxShift}

\* the ways a record of one call carries a request or a response, for a record
\* that can come from the search and from the transaction endpoint alike: the
\* method, the raw text, the response code, or some of them
ClassifyFields ==
    {<<>>,
     [method |-> "INVITE", raw |-> "INVITE sip:bob SIP/2.0"],
     [method |-> "180", raw |-> "SIP/2.0 180 Ringing"],
     [method |-> "200", raw |-> "SIP/2.0 200 OK"],
     [method |-> "200"],
     [raw |-> "SIP/2.0 200 OK"],
     [response_code |-> 200],
     [method |-> "BYE", raw |-> "BYE sip:bob SIP/2.0"],
     [method |-> "CANCEL", raw |-> "CANCEL sip:bob SIP/2.0"]}

\* the SIP records of the one call "abc"
ClassifyBatches ==
    {Batch([i \in DOMAIN f |-> [callid |-> "abc"] @@ f[i]]) : f \in SeqsUpTo(ClassifyFields, MaxRecs)}

\* records of a transaction response that lack fields: every field; the raw
\* text; the method and the ports; the text and the addresses of a log; the
\* payload type and the timestamp; and a complete record of an endpoint that the
\* topology does not hold
ShapeRecords ==
    {<<>>,
     [id |-> 1, payloadType |-> 1, method |-> "INVITE", micro_ts |-> 1200] @@ UacAddr,
     [id |-> 2, payloadType |-> 1, raw |-> "SIP/2.0 200 OK", micro_ts |-> 9000,
      srcIp |-> "10.0.0.2", dstIp |-> "10.0.0.1"],
     [payloadType |-> 100, micro_ts |-> 1200],
     [id |-> 4, method |-> "BYE", raw |-> "BYE sip:bob SIP/2.0"] @@ UasAddr,
     [id |-> 5, payloadType |-> 1, method |-> "INVITE", raw |-> "INVITE sip:bob SIP/2.0",
      micro_ts |-> 9000, srcIp |-> "10.0.0.3", srcPort |-> 5060,
      dstIp |-> "10.0.0.1", dstPort |-> 5060]}

\* the hosts dict of a response: an endpoint is missing, or mapped to a position
\* given as {"position": n} or as a bare integer, or mapped to something
\* malformed (a dict without position, a string that is no number)
ShapeHosts ==
    LET entry(host, info) == IF info = {} THEN <<>> ELSE <<[host |-> host, info |-> CHOOSE x \in info : TRUE]>>
    IN  {entry("10.0.0.1:5060", a) \o entry("10.0.0.2:5060", b) :
            a \in {{}, {[position |-> 0]}, {[position |-> 2]}, {[int |-> 1]}, {<<>>}},
            b \in {{}, {[position |-> 0]}, {[int |-> 1]}, {[str |-> "x"]}}}

\* the topologies of a response: a hosts dict, and no alias or an alias for the
\* first endpoint and for an endpoint that is not a host
ShapeTopologies ==
    {[hosts |-> h, alias |-> a] :
        h \in ShapeHosts,
        a \in {<<>>, <<[host |-> "10.0.0.1:5060", name |-> "pbx"],
                       [host |-> "10.0.0.9:5060", name |-> "gw"]>>}}

\* transaction responses whose records lack fields and whose topology has gaps
\* or is malformed
ShapeTransactions ==
    {Transaction(msgs, topo) : msgs \in SeqsUpTo(ShapeRecords, MaxMsgs), topo \in ShapeTopologies}

\* the credentials of a request: HTTP Basic user name and password
BasicCredentials ==
    {[username |-> u, password |-> p] :
        u \in {"admin", "Admin", "root"}, p \in {"changeme", "secret", ""}}

\* the environment of a deployment with Homer switched on and configured
HomerConfig ==
    [ENABLE_HOMER |-> "true", HOMER_URL |-> "http://homer:9080",
     HOMER_USERNAME |-> "admin", HOMER_PASSWORD |-> "secret"]

\* environments that differ in the Homer settings: the flag in capitals, no
\* flag, a blank password
HomerEnvirons ==
    {HomerConfig,
     [HomerConfig EXCEPT !["ENABLE_HOMER"] = "TRUE"],
     [k \in (DOMAIN HomerConfig) \ {"ENABLE_HOMER"} |-> HomerConfig[k]],
     [HomerConfig EXCEPT !["HOMER_PASSWORD"] = " "]}

\* environments that differ in the admin account: the defaults, or both set
AdminEnvirons ==
    {HomerConfig, [ADMIN_USERNAME |-> "root", ADMIN_PASSWORD |-> "secret"] @@ HomerConfig}

\* the time (s) at which the request is served
Now == 1000

\* the token cache: empty, valid for long, or within 60 s of its expiry
TokenCaches ==
    {[token |-> "", exp |-> 0], [token |-> "jwt1", exp |-> 5000], [token |-> "jwt1", exp |-> 1050]}

\* the answers of the backend to a login: unreachable, rejected, a token with
\* its expiry, a token whose expiry cannot be decoded
LoginAnswers ==
    {[fail |-> "unreachable"], [fail |-> "http_error"],
     [token |-> "jwt2", exp |-> 9000], [token |-> "jwt3", exp |-> 0]}

\* the answers of the backend to a search: unreachable, a non-success status,
\* the records of a call
SearchAnswers ==
    {[fail |-> "unreachable"], [fail |-> "http_error"],
     [data |-> Batch(<<[callid |-> "abc", method |-> "INVITE", create_date |-> 1000],
                       [callid |-> "abc", method |-> "200", create_date |-> 1200]>>)]}

\* the answers of the backend to a transaction fetch: unreachable, a
\* non-success status, the four-message call, an empty response, a response with
\* a malformed topology
TransactionAnswers ==
    {[fail |-> "unreachable"], [fail |-> "http_error"],
     Transaction(<<Message(1, "BYE", {9000}), Message(2, "200", {1200}),
                   Message(3, "180", {500}), Message(4, "INVITE", {1})>>, FullTopology),
     Transaction(<<>>, NoTopology),
     Transaction(<<Message(1, "INVITE", {1200})>>,
                 [hosts |-> <<[host |-> "10.0.0.1:5060", info |-> <<>>]>>, alias |-> <<>>])}

Backends ==
    {[login |-> l, search |-> f, transaction |-> t] :
        l \in LoginAnswers, f \in SearchAnswers, t \in TransactionAnswers}

\* the query of a request to /homer: the filters callid, from_user and to_tag
\* absent, blank or set, and the form submitted (search present) or not
IndexQueries ==
    {Field("callid", c) @@ Field("from_user", f) @@ Field("to_tag", t) @@ Field("search", sub) :
        c \in {{}, {" "}, {"abc"}},
        f \in {{}, {" "}, {"alice"}},
        t \in {{}, {"abc"}},
        sub \in {{}, {""}}}

\* the path and query of a request for one call
CallQueries ==
    {[callid |-> "abc"] @@ Field("id", i) @@ Field("ts", t) : i \in {{}, {7}}, t \in {{}, {1200}}}

\* the queries of a route
QueriesOf(route) ==
    IF route = "/homer" THEN IndexQueries
    ELSE IF route \in GuardedRoutes THEN CallQueries
    ELSE {<<>>}

-----------------------------------------------------------------------------
(* The requests *)

\* nothing produced yet
NoOutput ==
    /\ rows = <<>>
    /\ detail = None
    /\ detail_prev = None
    /\ calls = 0
    /\ summary = None

\* the engine called directly, outside a request
NoRequest ==
    /\ request = <<>>
    /\ environ = <<>>
    /\ token_cache = [token |-> "", exp |-> 0]
    /\ backend = <<>>
    /\ backend_calls = <<>>
    /\ page = <<>>

\* no service function called: the clock is not read, the dispatch cache and
\* the session are empty, no coroutine runs
NoServices ==
    /\ clock = 0
    /\ trace = <<>>
    /\ store = <<>>
    /\ session = <<>>
    /\ tasks = <<>>

\* a submitted search with filters: homer_index has fetched `batch`
InitSearch(batches) ==
    /\ pc = "search"
    /\ records \in batches
    /\ response = <<>>
    /\ transaction = <<>>
    /\ NoOutput
    /\ NoRequest
    /\ NoServices

\* a request answered from one transaction fetch: the detail page
\* (homer_call_detail) or the search by call id alone (homer_index)
InitTransaction(route, transactions) ==
    /\ pc = route
    /\ records = <<>>
    /\ response \in transactions
    /\ transaction = response
    /\ NoOutput
    /\ NoRequest
    /\ NoServices

\* calls = _group_calls(records)
GroupCalls ==
    /\ pc = "search"
    /\ rows' = group_calls(records)
    /\ pc' = "grouped"
    /\ UNCHANGED <<records, response, transaction, detail, detail_prev, calls, summary>>
    /\ UNCHANGED http
    /\ UNCHANGED services

\* detail = _build_call_detail(transaction), once and then once more on the
\* same object
BuildCallDetail ==
    /\ pc = "detail"
    /\ calls < 2
    /\ detail' = build_call_detail_outcome(transaction)
    /\ detail_prev' = detail
    /\ transaction' = TransactionAfterDetail(transaction)
    /\ calls' = calls + 1
    /\ UNCHANGED <<pc, records, rows, response, summary>>
    /\ UNCHANGED http
    /\ UNCHANGED services

\* summary = _call_summary_from_transaction(filters["callid"], transaction)
CallSummaryFromTransaction ==
    /\ pc = "callid_search"
    /\ summary' = call_summary_from_transaction("abc", transaction)
    /\ pc' = "summarised"
    /\ UNCHANGED <<records, rows, response, transaction, detail, detail_prev, calls>>
    /\ UNCHANGED http
    /\ UNCHANGED services

\* the records of one call, held both as a search batch and as the message list
\* of a transaction response
InitClassify ==
    /\ pc = "search"
    /\ records \in ClassifyBatches
    /\ response = Transaction(records, NoTopology)
    /\ transaction = response
    /\ NoOutput
    /\ NoRequest
    /\ NoServices

\* summary = _call_summary_from_transaction(callid, transaction) on the records
\* that _group_calls has summarised
CallSummaryOfGrouped ==
    /\ pc = "grouped"
    /\ transaction # <<>>
    /\ summary' = call_summary_from_transaction("abc", transaction)
    /\ pc' = "classified"
    /\ UNCHANGED <<records, rows, response, transaction, detail, detail_prev, calls>>
    /\ UNCHANGED http
    /\ UNCHANGED services

\* a request has arrived: nothing computed, no backend call made
InitRequest(routes, credentials, environs, caches, backends) ==
    /\ pc = "received"
    /\ request \in {[route |-> r, credentials |-> c, query |-> q, now |-> Now] :
                       r \in routes, c \in credentials,
                       q \in UNION {QueriesOf(r2) : r2 \in routes}}
    /\ request.query \in QueriesOf(request.route)
    /\ environ \in environs
    /\ token_cache \in caches
    /\ backend \in backends
    /\ backend_calls = <<>>
    /\ page = <<>>
    /\ records = <<>>
    /\ response = <<>>
    /\ transaction = <<>>
    /\ NoOutput
    /\ NoServices

\* requests of the admin to the search page and to the call page, with every
\* environment, token cache and backend answer
InitHomer ==
    InitRequest({"/homer", "/homer/call/{callid}"},
                {{[username |-> "admin", password |-> "changeme"]}},
                HomerEnvirons, TokenCaches, Backends)

\* requests to every route with every kind of credentials, and without
InitAuth ==
    InitRequest(GuardedRoutes \cup OpenRoutes,
                {{}} \cup {{c} : c \in BasicCredentials},
                AdminEnvirons,
                {[token |-> "jwt1", exp |-> 5000]},
                {b \in Backends : ~Failed(b.search) /\ ~Failed(b.transaction)
                                  /\ b.transaction = Transaction(<<>>, NoTopology)
                                  /\ b.login = [token |-> "jwt2", exp |-> 9000]})

\* dependencies=[Depends(requires_admin)]: runs before the handler of a guarded
\* route and answers 401 in its place
RequiresAdmin ==
    /\ pc = "received"
    /\ request.route \in GuardedRoutes
    /\ LET denied == requires_admin(request.credentials, environ)
       IN  IF denied # <<>>
           THEN page' = denied /\ pc' = "done"
           ELSE page' = page /\ pc' = "authorized"
    /\ UNCHANGED engine
    /\ UNCHANGED <<request, environ, token_cache, backend, backend_calls>>
    /\ UNCHANGED services

\* GET /homer
HomerIndex ==
    /\ pc = "authorized"
    /\ request.route = "/homer"
    /\ \E out \in {homer_index(request, environ, token_cache, backend)} :
           /\ page' = out.page
           /\ backend_calls' = backend_calls \o out.calls
           /\ token_cache' = out.cache
           /\ records' = out.records
           /\ rows' = out.rows
           /\ response' = out.transaction
           /\ transaction' = out.transaction
           /\ summary' = out.summary
    /\ pc' = "done"
    /\ UNCHANGED <<detail, detail_prev, calls, request, environ, backend>>
    /\ UNCHANGED services

\* GET /homer/call/{callid}
HomerCallDetail ==
    /\ pc = "authorized"
    /\ request.route = "/homer/call/{callid}"
    /\ \E out \in {homer_call_detail(request, environ, token_cache, backend)} :
           /\ page' = out.page
           /\ backend_calls' = backend_calls \o out.calls
           /\ token_cache' = out.cache
           /\ response' = out.transaction
           /\ transaction' = out.after
           /\ detail' = out.detail
           /\ calls' = IF out.transaction # <<>> THEN calls + 1 ELSE calls
    /\ pc' = "done"
    /\ UNCHANGED <<records, rows, detail_prev, summary, request, environ, backend>>
    /\ UNCHANGED services

\* GET /homer/call/{callid}/export.json
HomerCallExport ==
    /\ pc = "authorized"
    /\ request.route = "/homer/call/{callid}/export.json"
    /\ \E out \in {homer_call_export(request, environ, token_cache, backend)} :
           /\ page' = out.page
           /\ backend_calls' = backend_calls \o out.calls
           /\ token_cache' = out.cache
           /\ response' = out.transaction
           /\ transaction' = out.transaction
    /\ pc' = "done"
    /\ UNCHANGED <<records, rows, detail, detail_prev, calls, summary, request, environ, backend>>
    /\ UNCHANGED services

\* GET /health: no dependency, answers "OK"
HealthCheck ==
    /\ pc = "received"
    /\ request.route = "/health"
    /\ page' = [status |-> 200, content |-> "OK"]
    /\ pc' = "done"
    /\ UNCHANGED engine
    /\ UNCHANGED <<request, environ, token_cache, backend, backend_calls>>
    /\ UNCHANGED services

\* GET /logout: no dependency, renders the logout page
Logout ==
    /\ pc = "received"
    /\ request.route = "/logout"
    /\ page' = [status |-> 200, template |-> "logout.html.j2"]
    /\ pc' = "done"
    /\ UNCHANGED engine
    /\ UNCHANGED <<request, environ, token_cache, backend, backend_calls>>
    /\ UNCHANGED services

-----------------------------------------------------------------------------
(* The service functions, called one after another *)

\* no capture data and no request: the service functions are called directly
NoCapture ==
    /\ records = <<>>
    /\ response = <<>>
    /\ transaction = <<>>
    /\ NoOutput
    /\ request = <<>>
    /\ environ = <<>>
    /\ backend = <<>>
    /\ backend_calls = <<>>
    /\ page = <<>>

\* the tokens a login may return: with an expiry, without "exp", with two
\* segments, with a payload that is not JSON, with an "exp" float() refuses,
\* and the empty token of an answer without "token"
JWTs ==
    {[text |-> "jwt2", segments |-> 3, decodable |-> TRUE, exp |-> {[num |-> 9000]}],
     [text |-> "jwt3", segments |-> 3, decodable |-> TRUE, exp |-> {}],
     [text |-> "jwt4", segments |-> 2, decodable |-> TRUE, exp |-> {[num |-> 9000]}],
     [text |-> "jwt5", segments |-> 3, decodable |-> FALSE, exp |-> {}],
     [text |-> "jwt6", segments |-> 3, decodable |-> TRUE, exp |-> {[str |-> "soon"]}],
     [text |-> "", segments |-> 1, decodable |-> FALSE, exp |-> {}]}

\* the dispatch cache, empty, at some reading of the monotonic clock
InitCache ==
    /\ pc = "cache"
    /\ NoCapture
    /\ token_cache = [token |-> "", exp |-> 0]
    /\ clock \in {5, 100}
    /\ trace = <<>>
    /\ store = <<>>
    /\ session = <<>>
    /\ tasks = <<>>

\* a session without a flash message: new, or of a signed-in browser
InitFlash ==
    /\ pc = "flash"
    /\ NoCapture
    /\ token_cache = [token |-> "", exp |-> 0]
    /\ clock = 0
    /\ trace = <<>>
    /\ store = <<>>
    /\ session \in {<<>>, [csrf |-> "t0"]}
    /\ tasks = <<>>

\* the token provider called by one request after another (pc "token", no
\* coroutine), or by n coroutines of one event loop (pc "tokens")
InitProvider(mode, n) ==
    /\ pc = mode
    /\ NoCapture
    /\ token_cache \in TokenCaches
    /\ clock = Now
    /\ trace = <<>>
    /\ store = <<>>
    /\ session = <<>>
    /\ tasks = [i \in 1..n |-> [pc |-> "start"]]

\* time passes between two steps. The readings of time.monotonic() lie within
\* the first TTL seconds of the clock and later, around 30 s after each; those
\* of time.time() around 60 s before the expiries 4600 (one hour from the
\* request time), 5000 and 9000.
Tick ==
    /\ pc \in {"cache", "token", "tokens"}
    /\ clock' \in {t \in (IF pc = "cache" THEN {5, 34, 35, 100, 129, 130}
                         ELSE IF pc = "token" THEN {Now, 4539, 4540, 4939, 4940, 8939, 8940}
                         ELSE {Now, 4540, 8940}) : t > clock}
    /\ UNCHANGED <<pc, trace, store, session, tasks>>
    /\ UNCHANGED engine
    /\ UNCHANGED http

\* cache.get(url)
CacheGet ==
    /\ pc = "cache"
    /\ Len(trace) < MaxOps
    /\ \E url \in {"ws://a", "ws://b"} :
          \E out \in {get(store, url)} :
             /\ store' = out.store
             /\ trace' = Append(trace, [op |-> "get", url |-> url, at |-> clock,
                                        result |-> out.entry])
    /\ UNCHANGED <<pc, clock, session, tasks>>
    /\ UNCHANGED engine
    /\ UNCHANGED http

\* cache.set(url, data, latency)
CacheSet ==
    /\ pc = "cache"
    /\ Len(trace) < MaxOps
    /\ \E url \in {"ws://a", "ws://b"} :
          /\ store' = set(store, url, <<"dispatch">>, 1, clock)
          /\ trace' = Append(trace, [op |-> "set", url |-> url, at |-> clock,
                                     result |-> None])
    /\ UNCHANGED <<pc, clock, session, tasks>>
    /\ UNCHANGED engine
    /\ UNCHANGED http

\* cache.invalidate(url)
CacheInvalidate ==
    /\ pc = "cache"
    /\ Len(trace) < MaxOps
    /\ \E url \in {"ws://a", "ws://b"} :
          /\ store' = invalidate(store, url)
          /\ trace' = Append(trace, [op |-> "invalidate", url |-> url, at |-> clock,
                                     result |-> None])
    /\ UNCHANGED <<pc, clock, session, tasks>>
    /\ UNCHANGED engine
    /\ UNCHANGED http

\* cache.is_fresh(url)
CacheIsFresh ==
    /\ pc = "cache"
    /\ Len(trace) < MaxOps
    /\ \E url \in {"ws://a", "ws://b"} :
          trace' = Append(trace, [op |-> "is_fresh", url |-> url, at |-> clock,
                                  result |-> is_fresh(store, url, clock)])
    /\ UNCHANGED <<pc, clock, store, session, tasks>>
    /\ UNCHANGED engine
    /\ UNCHANGED http

\* flash(request, message, kind), as create_dispatch and delete_dispatch call it
Flash ==
    /\ pc = "flash"
    /\ Len(trace) < MaxOps
    /\ \E message \in {"", "Dispatch created", "Failed to delete dispatch"},
          kind \in {"success", "danger"} :
          /\ session' = flash(session, message, kind)
          /\ trace' = Append(trace, [op |-> "flash", message |-> message, kind |-> kind])
    /\ UNCHANGED <<pc, clock, store, tasks>>
    /\ UNCHANGED engine
    /\ UNCHANGED http

\* get_flash(request), as agents_index calls it
GetFlash ==
    /\ pc = "flash"
    /\ Len(trace) < MaxOps
    /\ \E out \in {get_flash(session)} :
          /\ session' = out.session
          /\ trace' = Append(trace, [op |-> "get_flash", message |-> out.message,
                                     kind |-> out.kind])
    /\ UNCHANGED <<pc, clock, store, tasks>>
    /\ UNCHANGED engine
    /\ UNCHANGED http

\* _ensure_token, from its first line to its return or to the exception of the
\* login; `answer` is what the backend does if it is asked
EnsureToken ==
    /\ pc = "token"
    /\ Len(trace) < MaxOps
    /\ \E answer \in {[fail |-> "unreachable"], [fail |-> "http_error"]} \cup JWTs :
          \E out \in {ensure_token(token_cache, clock,
                                   IF Failed(answer) THEN answer ELSE login_answer(answer))} :
             /\ token_cache' = out.cache
             /\ trace' = Append(trace,
                    [op |-> "ensure_token", at |-> clock, before |-> token_cache,
                     answer |-> IF out.calls = <<>> THEN {} ELSE {answer},
                     logins |-> Len(out.calls), error |-> out.error,
                     token |-> out.token, after |-> out.cache])
    /\ UNCHANGED <<pc, clock, store, session, tasks>>
    /\ UNCHANGED engine
    /\ UNCHANGED <<request, environ, backend, backend_calls, page>>

\* coroutine i runs _ensure_token up to its first suspension: it returns the
\* cached token, or awaits the login
EnsureTokenBegin(i) ==
    /\ pc = "tokens"
    /\ tasks[i].pc = "start"
    /\ tasks' = [tasks EXCEPT ![i] =
                    IF token_cached(token_cache, clock)
                    THEN [pc |-> "done", seen |-> token_cache, at |-> clock,
                          login |-> {}, returned |-> token_cache.token]
                    ELSE [pc |-> "login", seen |-> token_cache, at |-> clock]]
    /\ UNCHANGED <<pc, clock, trace, store, session>>
    /\ UNCHANGED engine
    /\ UNCHANGED http

\* the login of coroutine i answers and the coroutine runs to its end without
\* another suspension: it raises, or assigns _token and _token_exp and returns
\* _token
LoginCompletes(i) ==
    /\ pc = "tokens"
    /\ tasks[i].pc = "login"
    /\ \E answer \in {[fail |-> "unreachable"]} \cup {t \in JWTs : t.text \in {"jwt2", "jwt3"}} :
          IF Failed(answer)
          THEN /\ tasks' = [tasks EXCEPT ![i] = [@ EXCEPT !.pc = "failed"]]
               /\ backend_calls' = Append(backend_calls, [op |-> "login", ok |-> FALSE])
               /\ UNCHANGED token_cache
          ELSE \E cache \in {store_login(login_answer(answer), clock)} :
                  /\ token_cache' = cache
                  /\ backend_calls' = Append(backend_calls,
                         [op |-> "login", ok |-> TRUE, jwt |-> answer, at |-> clock])
                  /\ tasks' = [tasks EXCEPT ![i] =
                                  [pc |-> "done", seen |-> tasks[i].seen, at |-> tasks[i].at,
                                   login |-> {Len(backend_calls) + 1},
                                   returned |-> cache.token]]
    /\ UNCHANGED <<pc, clock, trace, store, session>>
    /\ UNCHANGED engine
    /\ UNCHANGED <<request, environ, backend, page>>

InitGroupKeys == InitSearch(KeyBatches)
InitGroupTime == InitSearch(TimeBatches)
InitGroupStatus == InitSearch(StatusBatches)
InitDetail == InitTransaction("detail", DetailTransactions)
InitScenario == InitTransaction("detail", ScenarioTransactions)
InitSummary == InitTransaction("callid_search", DetailTransactions)
InitTopology == InitTransaction("detail", ShapeTransactions)

Init ==
    \/ InitGroupKeys
    \/ InitScenario
    \/ InitTransaction("callid_search", ScenarioTransactions)
    \/ InitClassify
    \/ InitAuth
    \/ InitCache
    \/ InitFlash
    \/ InitProvider("token", 0)
    \/ InitProvider("tokens", MaxTasks)

Next ==
    \/ GroupCalls
    \/ BuildCallDetail
    \/ CallSummaryFromTransaction
    \/ CallSummaryOfGrouped
    \/ RequiresAdmin
    \/ HomerIndex
    \/ HomerCallDetail
    \/ HomerCallExport
    \/ HealthCheck
    \/ Logout
    \/ Tick
    \/ CacheGet
    \/ CacheSet
    \/ CacheInvalidate
    \/ CacheIsFresh
    \/ Flash
    \/ GetFlash
    \/ EnsureToken
    \/ \E i \in DOMAIN tasks : EnsureTokenBegin(i)
    \/ \E i \in DOMAIN tasks : LoginCompletes(i)

\* every route and every service function, on the batches of KeyBatches and of ScenarioTransactions
Spec == Init /\ [][Next]_vars

\* _group_calls on batches that differ in their call ids
SpecGroupKeys == InitGroupKeys /\ [][GroupCalls]_vars

\* _group_calls on batches that differ in their timestamps
SpecGroupTime == InitGroupTime /\ [][GroupCalls]_vars

\* _group_calls on batches that differ in methods and response codes
SpecGroupStatus == InitGroupStatus /\ [][GroupCalls]_vars

\* _build_call_detail on transaction responses of every kind of record
SpecDetail == InitDetail /\ [][BuildCallDetail]_vars

\* _build_call_detail on the four-message call
SpecScenario == InitScenario /\ [][BuildCallDetail]_vars

\* _call_summary_from_transaction on transaction responses of every kind of record
SpecSummary == InitSummary /\ [][CallSummaryFromTransaction]_vars

\* _build_call_detail on responses with incomplete records and topologies
SpecTopology == InitTopology /\ [][BuildCallDetail]_vars

\* _group_calls and _call_summary_from_transaction on the same records of one call
SpecClassify == InitClassify /\ [][GroupCalls \/ CallSummaryOfGrouped]_vars

\* the search page and the call page, served to the admin
SpecHomer == InitHomer /\ [][RequiresAdmin \/ HomerIndex \/ HomerCallDetail]_vars

\* every route, asked for with and without the credentials of the admin
SpecAuth ==
    InitAuth /\ [][RequiresAdmin \/ HomerIndex \/ HomerCallDetail \/ HomerCallExport
                   \/ HealthCheck \/ Logout]_vars

\* the dispatch cache under calls of its four functions and a running clock
SpecCache ==
    InitCache /\ [][Tick \/ CacheGet \/ CacheSet \/ CacheInvalidate \/ CacheIsFresh]_vars

\* flash and get_flash on one session
SpecFlash == InitFlash /\ [][Flash \/ GetFlash]_vars

\* _ensure_token, one call after another
SpecToken == InitProvider("token", 0) /\ [][Tick \/ EnsureToken]_vars

\* _ensure_token in coroutines that interleave at the await of the login
SpecTokens ==
    InitProvider("tokens", MaxTasks) /\ [][Tick \/ (\E i \in DOMAIN tasks : EnsureTokenBegin(i))
                      \/ (\E i \in DOMAIN tasks : LoginCompletes(i))]_vars

-----------------------------------------------------------------------------
(* Properties *)

\* the records of the search batch that belong to the call cid
Partition(cid) == {i \in DOMAIN records : CallIdOf(records[i]) = cid}

\* the messages of the transaction response as the backend returned them
ResponseMessages == RawMessagesOf(response)

\* the SIP messages of the response
ResponseSip == {i \in DOMAIN ResponseMessages : PType(ResponseMessages[i]) = 1}

\* _build_call_detail has returned
DetailBuilt == pc = "detail" /\ calls >= 1

\* the response holds a BYE, and a response whose text begins "SIP/2.0 200"
ResponseHasBye == \E i \in ResponseSip : Get(ResponseMessages[i], "method", "") = "BYE"
ResponseHas200 ==
    \E i \in ResponseSip : StartsWith(Get(ResponseMessages[i], "raw", ""), "SIP/2.0 200")

\* C1: every record set that holds a BYE and a 200 response gets the status
\* Finished, from _group_calls, from _call_summary_from_transaction and in the
\* session of _build_call_detail, with or without a CANCEL and wherever it is.
C1_FinishedWhenByeAnd200 ==
    /\ pc = "grouped" =>
          \A k \in DOMAIN rows :
              LET part == Partition(rows[k].callid)
              IN  (/\ \E i \in part : Get(records[i], "method", "") = "BYE"
                   /\ \E i \in part : \/ StartsWith(Get(records[i], "method", ""), "200")
                                      \/ Get(records[i], "response_code", 0) = 200)
                  => rows[k].status = "Finished"
    /\ (pc = "summarised" /\ ResponseHasBye /\ ResponseHas200) => summary.status = "Finished"
    /\ (DetailBuilt /\ ResponseHasBye /\ ResponseHas200) => detail.session.status = "Finished"

\* C2: for a transaction response without messages (and without topology),
\* _build_call_detail returns an empty timeline, an empty column list, a
\* message count of 0 and a session of status "Unknown".
C2_EmptyResponseIsUnknown ==
    (DetailBuilt /\ ResponseMessages = <<>> /\ RawHostsOf(response) = <<>>) =>
        /\ detail.flow_rows = <<>>
        /\ detail.flow_cols = <<>>
        /\ detail.total_messages = 0
        /\ detail.session.status = "Unknown"

\* C3: every timeline entry has offset_ms >= 0, and offset_ms never decreases
\* from one timeline entry to the next.
C3_OffsetsNonDecreasing ==
    DetailBuilt =>
        \A i \in DOMAIN detail.flow_rows :
            /\ detail.flow_rows[i].offset_ms >= 0
            /\ i > 1 => detail.flow_rows[i - 1].offset_ms <= detail.flow_rows[i].offset_ms

\* C3 witness: the response arrived out of time order, and its timeline holds a
\* log row followed by a later SIP row
C3_Witness ==
    /\ DetailBuilt
    /\ transaction # response
    /\ \E i \in DOMAIN detail.flow_rows :
          /\ i > 1
          /\ detail.flow_rows[i - 1].type = "log"
          /\ detail.flow_rows[i].type = "sip"
          /\ detail.flow_rows[i].offset_ms > detail.flow_rows[i - 1].offset_ms

\* C4: a second _build_call_detail on the same transaction object returns what
\* the first returned, field by field.
C4_SecondCallSameResult ==
    (pc = "detail" /\ calls = 2) => detail = detail_prev

\* C4 witness: two calls were made, and the first one reordered the list inside
\* the transaction object that the second one read
C4_Witness ==
    /\ pc = "detail"
    /\ calls = 2
    /\ transaction # response
    /\ Len(detail.flow_rows) >= 2
    /\ detail.first_ts_ms # FirstTs(ResponseMessages)

\* C5: _group_calls returns exactly one summary per call id of the batch (the
\* empty string included), no two summaries share a call id, and every summary
\* is made of records of its own call only.
C5_OneSummaryPerCallId ==
    pc = "grouped" =>
        LET keys == {CallIdOf(records[i]) : i \in DOMAIN records}
        IN  /\ {rows[k].callid : k \in DOMAIN rows} = keys
            /\ Len(rows) = Cardinality(keys)
            /\ \A k \in DOMAIN rows :
                  LET part == Partition(rows[k].callid)
                  IN  /\ rows[k].id \in {records[i]["id"] : i \in part}
                      /\ rows[k].from_user \in {records[i]["from_user"] : i \in part}
                      /\ SeqToSet(rows[k].methods) \subseteq
                            {Get(records[i], "method", "") : i \in part}

\* C5 witness: a call whose records are apart in the batch and carry the id
\* under different keys, and a record without call id between them
C5_Witness ==
    /\ pc = "grouped"
    /\ Len(records) = 3
    /\ Get(records[1], "callid", "") = "abc"
    /\ CallIdOf(records[2]) = ""
    /\ ~Has(records[3], "callid") /\ Get(records[3], "call_id", "") = "abc"
    /\ Len(rows) = 2

\* the timestamps of the timestamped records of a call, one per record
PartitionStamped(cid) == {i \in Partition(cid) : RecordTs(records[i]) # 0}

\* C6: the duration of a summary is max(timestamp) - min(timestamp) over the
\* timestamped records of its call when there are at least two, else 0; it is
\* never negative, and a call of one record has duration 0.
C6_DurationIsMaxMinusMin ==
    pc = "grouped" =>
        \A k \in DOMAIN rows :
            LET stamped == PartitionStamped(rows[k].callid)
                ts == {RecordTs(records[i]) : i \in stamped}
            IN  /\ rows[k].duration_ms =
                      IF Cardinality(stamped) >= 2
                      THEN (CHOOSE x \in ts : \A y \in ts : y <= x)
                           - (CHOOSE x \in ts : \A y \in ts : x <= y)
                      ELSE 0
                /\ rows[k].duration_ms >= 0
                /\ Cardinality(Partition(rows[k].callid)) = 1 => rows[k].duration_ms = 0
                /\ rows[k].duration_str = ms_to_hhmmss(rows[k].duration_ms)

\* C6 witness: a call whose later record comes first in the batch, 61 s apart,
\* next to a call of a single record
C6_Witness ==
    /\ pc = "grouped"
    /\ Len(records) = 3
    /\ CallIdOf(records[1]) = "abc" /\ RecordTs(records[1]) = 62000
    /\ CallIdOf(records[2]) = "abc" /\ RecordTs(records[2]) = 1000
    /\ CallIdOf(records[3]) = "xyz" /\ RecordTs(records[3]) = 3725000
    /\ \E k \in DOMAIN rows : rows[k].duration_ms = 61000 /\ rows[k].duration_str = "1m 01s"
    /\ \E k \in DOMAIN rows : rows[k].callid = "xyz" /\ rows[k].duration_str = "0s"

\* the response is the call INVITE at t, 180 at t+500, 200 at t+1200, BYE at t+9000
IsScenario(t) ==
    /\ Len(ResponseMessages) = 4
    /\ \A want \in {<<"INVITE", t>>, <<"180", t + 500>>, <<"200", t + 1200>>, <<"BYE", t + 9000>>} :
          \E i \in ResponseSip :
              /\ Get(ResponseMessages[i], "method", "") = want[1]
              /\ Get(ResponseMessages[i], "micro_ts", 0) = want[2]

\* C7 as stated: INVITE at 0, 180 at 500, 200 at 1200, BYE at 9000 gives
\* ringing_ms 500, setup_ms 1200, duration 7800 ms and status Finished.
C7_ScenarioAtZero ==
    (DetailBuilt /\ IsScenario(0)) =>
        /\ detail.session.ringing_ms = 500
        /\ detail.session.setup_ms = 1200
        /\ detail.session.duration_ms = 7800
        /\ detail.session.status = "Finished"

\* C7 as amended: INVITE at t, 180 at t+500, 200 at t+1200, BYE at t+9000 gives
\* duration 7800 ms and status Finished for every t; ringing_ms is 500 and
\* setup_ms 1200 when t > 0, and both are 0 when t = 0, where the timestamp of
\* the INVITE counts as unavailable.
C7_Scenario ==
    \A t \in 0..MaxShift :
        (DetailBuilt /\ IsScenario(t)) =>
            /\ detail.session.duration_ms = 7800
            /\ detail.session.duration_sec = 7
            /\ detail.session.status = "Finished"
            /\ detail.session.ringing_ms = (IF t = 0 THEN 0 ELSE 500)
            /\ detail.session.setup_ms = (IF t = 0 THEN 0 ELSE 1200)

\* C7 witness: the call at t = 0, received out of time order
C7_Witness ==
    /\ DetailBuilt
    /\ IsScenario(0)
    /\ transaction # response
    /\ detail.session.ringing_ms = 0
    /\ detail.session.duration_ms = 7800

\* the place in the response of the record a timeline row was built from: a SIP
\* row shows the id of its record, a log row its text
SourceOfRow(row) ==
    CHOOSE i \in DOMAIN ResponseMessages :
        \/ /\ row.type = "sip"
           /\ PType(ResponseMessages[i]) = 1
           /\ row.msg_id_str = "[" \o ToString(ResponseMessages[i]["id"]) \o "]"
        \/ /\ row.type = "log"
           /\ PType(ResponseMessages[i]) = 100
           /\ row.raw_preview = ResponseMessages[i]["raw"]

\* the place in the response of the record a SIP message was built from
SourceOfMessage(m) == CHOOSE i \in DOMAIN ResponseMessages : ResponseMessages[i]["id"] = m.id

\* C8: records with the same timestamp stand in the timeline, and in the list
\* of SIP messages, in the order in which the response held them.
C8_StableSort ==
    DetailBuilt =>
        /\ \A i, j \in DOMAIN detail.flow_rows :
              (i < j /\ detail.flow_rows[i].offset_ms = detail.flow_rows[j].offset_ms)
              => SourceOfRow(detail.flow_rows[i]) < SourceOfRow(detail.flow_rows[j])
        /\ \A i, j \in DOMAIN detail.messages :
              (i < j /\ detail.messages[i].ts_ms = detail.messages[j].ts_ms)
              => SourceOfMessage(detail.messages[i]) < SourceOfMessage(detail.messages[j])

\* C8 witness: the sort moved a record, and two rows of the timeline, a log and
\* a SIP message, share a timestamp
C8_Witness ==
    /\ DetailBuilt
    /\ transaction # response
    /\ \E i, j \in DOMAIN detail.flow_rows :
          /\ i < j
          /\ detail.flow_rows[i].offset_ms = detail.flow_rows[j].offset_ms
          /\ detail.flow_rows[i].type # detail.flow_rows[j].type

\* the earliest timestamp of the records of a call (0 when none carries one)
EarliestTs(cid) ==
    LET ts == {RecordTs(records[i]) : i \in PartitionStamped(cid)}
    IN  IF ts = {} THEN 0 ELSE CHOOSE x \in ts : \A y \in ts : x <= y

\* C9: the summaries are ordered newest first by the earliest timestamp of the
\* records of their call.
C9_NewestFirstByEarliestTs ==
    pc = "grouped" =>
        \A k \in DOMAIN rows :
            k > 1 => EarliestTs(rows[k - 1].callid) >= EarliestTs(rows[k].callid)

\* C10: the methods of a summary are the non-empty methods of the records of
\* its call, each once, in lexicographic order; the batch INVITE, 180, 200 of
\* the call "abc" gives ["180", "200", "INVITE"] and the status Answered.
C10_MethodsSortedSet ==
    pc = "grouped" =>
        /\ \A k \in DOMAIN rows :
              LET ms == rows[k].methods
              IN  /\ SeqToSet(ms) =
                        {Get(records[i], "method", "") : i \in Partition(rows[k].callid)} \ {""}
                  /\ \A i, j \in DOMAIN ms : i < j => StrLess(ms[i], ms[j])
        /\ (/\ Len(records) = 3
            /\ \A i \in DOMAIN records : CallIdOf(records[i]) = "abc"
            /\ \A m \in {"INVITE", "180", "200"} :
                  \E i \in DOMAIN records : Get(records[i], "method", "") = m)
           => /\ Len(rows) = 1
              /\ rows[1].methods = <<"180", "200", "INVITE">>
              /\ rows[1].status = "Answered"

\* C10 witness: the batch INVITE, 180, 200 of the call "abc", in that order
C10_Witness ==
    /\ pc = "grouped"
    /\ Len(records) = 3
    /\ \A i \in DOMAIN records : CallIdOf(records[i]) = "abc"
    /\ Get(records[1], "method", "") = "INVITE"
    /\ Get(records[2], "method", "") = "180"
    /\ Get(records[3], "method", "") = "200"
    /\ rows[1].methods = <<"180", "200", "INVITE">>
    /\ rows[1].status = "Answered"

\* C11: for every non-empty set of SIP records of one call, the status returned
\* by _call_summary_from_transaction equals the status of the summary that
\* _group_calls builds from the same records.
C11_SamePathsSameStatus ==
    (pc = "classified" /\ records # <<>>) =>
        /\ Len(rows) = 1
        /\ summary # None
        /\ summary.status = rows[1].status

\* the records of the batch hold a BYE, a CANCEL, a 200 response (in the
\* response-code field or at the head of the raw text)
BatchHasMethod(m) == \E i \in DOMAIN records : Get(records[i], "method", "") = m
BatchHas200 ==
    \E i \in DOMAIN records :
        \/ Get(records[i], "response_code", 0) = 200
        \/ StartsWith(Get(records[i], "raw", ""), "SIP/2.0 200")

\* C15: _group_calls gives every call the status of the first rule that
\* matches: BYE and a 200 response -> Finished; a 200 response -> Answered;
\* CANCEL -> Cancelled; the set of methods within {INVITE, ""} -> Trying;
\* otherwise Unknown. A 200 response is one in the response-code field or at the
\* head of the raw text.
C15_GroupStatusRules ==
    (pc \in {"grouped", "classified"} /\ Len(rows) = 1 /\ Len(records) >= 1) =>
        rows[1].status =
            IF BatchHasMethod("BYE") /\ BatchHas200 THEN "Finished"
            ELSE IF BatchHas200 THEN "Answered"
            ELSE IF BatchHasMethod("CANCEL") THEN "Cancelled"
            ELSE IF {Get(records[i], "method", "") : i \in DOMAIN records} \subseteq {"INVITE", ""}
                 THEN "Trying"
            ELSE "Unknown"

\* C14: _build_call_detail, _group_calls and _call_summary_from_transaction
\* leave their argument as it was: after the call the transaction object (the
\* order and content of its message list) and the batch are what was passed in.
C14_InputUnchanged ==
    /\ DetailBuilt => transaction = response
    /\ pc = "summarised" => transaction = response
    /\ pc \in {"grouped", "classified"} => transaction = response

\* the session status by the rules of the list view, "In Progress" taking the
\* place of "Trying" when there is no 200 response, no BYE and no CANCEL
SessionStatusByRules ==
    LET has_cancel == \E i \in ResponseSip : Get(ResponseMessages[i], "method", "") = "CANCEL"
    IN  IF ResponseHasBye /\ ResponseHas200 THEN "Finished"
        ELSE IF ResponseHas200 THEN "Answered"
        ELSE IF has_cancel THEN "Cancelled"
        ELSE IF ~ResponseHasBye THEN "In Progress"
        ELSE "Unknown"

\* C19: the session status of _build_call_detail is Finished, Answered,
\* Cancelled by the rules of the list view, "In Progress" when the messages
\* hold no 200 response, no BYE and no CANCEL, and "Unknown" when no rule
\* matches (a BYE without 200 response and without CANCEL).
C19_SessionStatusRules ==
    DetailBuilt => detail.session.status = SessionStatusByRules

\* the timestamps _build_session works from, read off the returned messages and
\* the sorted message list: the non-zero timestamps of the SIP messages, the
\* first 200 response, the first BYE (the last timestamp when there is none)
SessionStamps ==
    LET msgs == detail.messages
        sorted == RawMessagesOf(transaction)
        stamps == {msgs[i].ts_ms : i \in DOMAIN msgs} \ {0}
        first_ts == IF stamps = {} THEN 0 ELSE CHOOSE x \in stamps : \A y \in stamps : x <= y
        last_ts == IF stamps = {} THEN 0 ELSE CHOOSE x \in stamps : \A y \in stamps : y <= x
        oks == {i \in DOMAIN sorted : StartsWith(Get(sorted[i], "raw", ""), "SIP/2.0 200")}
        ok == IF oks = {} THEN 0
              ELSE Get(sorted[CHOOSE i \in oks : \A j \in oks : i <= j], "micro_ts", 0)
        byes == {i \in DOMAIN msgs : msgs[i].method = "BYE"}
        bye == IF byes = {} THEN last_ts
               ELSE msgs[CHOOSE i \in byes : \A j \in byes : i <= j].ts_ms
    IN  [first_ts |-> first_ts, last_ts |-> last_ts, answer_ts |-> ok, bye_ts |-> bye]

\* C20 as stated: duration_ms is answer_ts - bye_ts when both are available,
\* and last_ts - first_ts otherwise.
C20_AnswerMinusBye ==
    DetailBuilt =>
        LET st == SessionStamps
        IN  detail.session.duration_ms =
                IF st.answer_ts # 0 /\ st.bye_ts # 0 THEN st.answer_ts - st.bye_ts
                ELSE st.last_ts - st.first_ts

\* C20 as amended: duration_ms is bye_ts - answer_ts when both are non-zero,
\* and last_ts - first_ts otherwise; answer_ts is the timestamp of the first
\* record whose text begins "SIP/2.0 200" (0 without one), bye_ts the timestamp
\* of the first BYE (last_ts without one), first_ts and last_ts the smallest and
\* the largest non-zero timestamp of the SIP messages (0 without one).
C20_ByeMinusAnswer ==
    DetailBuilt =>
        LET st == SessionStamps
        IN  /\ detail.session.duration_ms =
                  IF st.answer_ts # 0 /\ st.bye_ts # 0 THEN st.bye_ts - st.answer_ts
                  ELSE st.last_ts - st.first_ts
            /\ detail.session.duration_sec = detail.session.duration_ms \div 1000

\* C20 witness: a 200 response at 1200, a BYE at 1200 and a later BYE at 9000:
\* the duration runs to the first BYE
C20_Witness ==
    /\ DetailBuilt
    /\ SessionStamps.answer_ts = 1200
    /\ SessionStamps.bye_ts = 1200
    /\ SessionStamps.last_ts = 9000
    /\ detail.session.duration_ms = 0

\* C13: _build_call_detail never raises for a response whose records lack
\* fields and whose topology lacks entries or is malformed: it returns a
\* result, with a missing timestamp read as 0, a missing method as "" and an
\* endpoint without topology entry in column -1.
C13_NeverRaises ==
    DetailBuilt =>
        /\ ~Has(detail, "raised")
        /\ (\A i \in DOMAIN ResponseMessages : ~Has(ResponseMessages[i], "micro_ts")) =>
              \A i \in DOMAIN detail.messages :
                  detail.messages[i].ts_ms = 0 /\ detail.messages[i].offset_ms = 0
        /\ (\A i \in DOMAIN ResponseMessages : ~Has(ResponseMessages[i], "method")) =>
              \A i \in DOMAIN detail.messages : detail.messages[i].method = ""
        /\ (RawHostsOf(response) = <<>>) =>
              \A i \in DOMAIN detail.flow_rows :
                  detail.flow_rows[i].src_col = -1 /\ detail.flow_rows[i].dst_col = -1

\* the hosts of the response with their positions, for a well-formed topology
TopologyWellFormed ==
    \A i \in DOMAIN RawHostsOf(response) :
        LET info == RawHostsOf(response)[i].info
        IN  Has(info, "position") \/ Has(info, "int")
TopologyPosition(i) ==
    LET info == RawHostsOf(response)[i].info
    IN  IF Has(info, "int") THEN info["int"] ELSE info["position"]
TopologyName(i) ==
    LET host == RawHostsOf(response)[i].host
        named == {j \in DOMAIN AliasOf(response) : AliasOf(response)[j].host = host}
    IN  IF named = {} THEN host ELSE AliasOf(response)[CHOOSE j \in named : TRUE].name

\* C16: the column list has 1 + (largest position of the topology) entries, none
\* for an empty topology; the entry of a mapped position is the alias of an
\* endpoint mapped there, or the endpoint string when it has no alias; the entry
\* of a position without endpoint is the empty string.
C16_FlowCols ==
    (DetailBuilt /\ TopologyWellFormed) =>
        LET hosts == RawHostsOf(response)
            positions == {TopologyPosition(i) : i \in DOMAIN hosts}
            n == IF hosts = <<>> THEN 0
                 ELSE 1 + (CHOOSE x \in positions : \A y \in positions : y <= x)
        IN  /\ Len(detail.flow_cols) = n
            /\ \A c \in 0..(n - 1) :
                  LET mapped == {i \in DOMAIN hosts : TopologyPosition(i) = c}
                  IN  IF mapped = {} THEN detail.flow_cols[c + 1] = ""
                      ELSE detail.flow_cols[c + 1] \in {TopologyName(i) : i \in mapped}

\* C16 witness: the first endpoint, with an alias, at position 2 and the second,
\* without alias, at position 1: three columns, the first one empty
C16_Witness ==
    /\ DetailBuilt
    /\ TopologyWellFormed
    /\ Len(ResponseMessages) >= 1
    /\ detail.flow_cols = <<"", "10.0.0.2:5060", "pbx">>

\* the request to the route has been answered with a rendered page
Answered(route) ==
    /\ pc = "done"
    /\ Has(request, "route")
    /\ request.route = route
    /\ page.status = 200

\* the backend calls of the request that are of the kind op
CallsOf(op) == {i \in DOMAIN backend_calls : backend_calls[i].op = op}

\* the calls of the request that failed
FailedCalls == {i \in DOMAIN backend_calls : ~backend_calls[i].ok}

\* the call id is the only filter in effect: it is non-empty and no other filter
\* puts a constraint into the backend query (an other filter is empty or blank)
OnlyCallIdInEffect ==
    /\ page.filters["callid"] # ""
    /\ \A k \in {"from_user", "to_user", "method", "source_ip", "dst_ip", "from_tag", "to_tag"} :
          strip(page.filters[k]) = ""

\* C12: a submitted search whose only filter in effect is the call id is
\* answered by exactly one transaction fetch over the 30-day window and by no
\* search; every other submitted search is answered by one capped search, whose
\* records _group_calls summarises, and by no transaction fetch.
C12_CallIdOnlyBypass ==
    (Answered("/homer") /\ page.searched /\ CallsOf("search") \cup CallsOf("transaction") # {}) =>
        IF OnlyCallIdInEffect
        THEN /\ Cardinality(CallsOf("transaction")) = 1
             /\ CallsOf("search") = {}
             /\ \A i \in CallsOf("transaction") : backend_calls[i].window_hours = WindowHoursCallId
        ELSE /\ Cardinality(CallsOf("search")) = 1
             /\ CallsOf("transaction") = {}
             /\ \A i \in CallsOf("search") : backend_calls[i].limit = SearchLimit
             /\ page.calls = rows

\* C17: when a call to the capture backend fails, the search page and the call
\* page make no further backend call for the request, do not raise, and carry
\* the failure as one error string, with an empty call list and no detail.
C17_FailureIsOneError ==
    \A route \in {"/homer", "/homer/call/{callid}"} :
        (pc = "done" /\ Has(request, "route") /\ request.route = route /\ FailedCalls # {}) =>
            /\ FailedCalls = {Len(backend_calls)}
            /\ page.status = 200
            /\ Cardinality(page.error) = 1
            /\ route = "/homer" => page.calls = <<>>
            /\ route = "/homer/call/{callid}" =>
                  DOMAIN page \cap {"messages", "flow_rows", "flow_cols", "session", "logs"} = {}

\* C17 witness: the login succeeded and the search after it failed; the page
\* shows the text of that failure
C17_Witness ==
    /\ Answered("/homer")
    /\ Len(backend_calls) = 2
    /\ backend_calls[1].op = "login" /\ backend_calls[1].ok
    /\ backend_calls[2].op = "search" /\ ~backend_calls[2].ok
    /\ page.error = {"Homer search returned HTTP 500: "}
    /\ page.calls = <<>>

\* the credentials of the request are those of the configured admin
CredentialsMatch ==
    \E c \in request.credentials :
        /\ c.username = Get(environ, "ADMIN_USERNAME", "admin")
        /\ c.password = Get(environ, "ADMIN_PASSWORD", "changeme")

\* C18: a request to a guarded route whose credentials are missing or differ
\* from the configured admin in user name or password is answered 401 and its
\* handler never runs; verify_credentials is true exactly when both match;
\* /health and /logout are served without credentials.
C18_AdminGuard ==
    Has(request, "route") =>
        /\ (request.route \in GuardedRoutes /\ ~CredentialsMatch) =>
              /\ pc # "authorized"
              /\ pc = "done" => (page.status = 401 /\ backend_calls = <<>> /\ detail = None)
        /\ (request.route \in GuardedRoutes /\ CredentialsMatch /\ pc = "done") => page.status # 401
        /\ \A c \in request.credentials :
              verify_credentials(c, environ) <=>
                  (/\ c.username = Get(environ, "ADMIN_USERNAME", "admin")
                   /\ c.password = Get(environ, "ADMIN_PASSWORD", "changeme"))
        /\ (request.route \in OpenRoutes /\ pc = "done") => page.status = 200

\* C18 witness: the right user name with a wrong password on the search page is
\* answered 401, and /health without credentials is served
C18_Witness ==
    /\ pc = "done"
    /\ Has(request, "route")
    /\ \/ /\ request.route = "/homer"
          /\ request.credentials = {[username |-> "admin", password |-> "secret"]}
          /\ ~Has(environ, "ADMIN_PASSWORD")
          /\ page.status = 401
       \/ /\ request.route = "/health"
          /\ request.credentials = {}
          /\ page.status = 200

\* the log records of the response, and the rows and log entries built from the
\* record at place i (a log record of the response is known by its text)
ResponseLogs == {i \in DOMAIN ResponseMessages : PType(ResponseMessages[i]) = 100}
LogRowsOf(i) ==
    {k \in DOMAIN detail.flow_rows :
        /\ detail.flow_rows[k].type = "log"
        /\ detail.flow_rows[k].raw_preview = ResponseMessages[i]["raw"]}
LogEntriesOf(i) == {k \in DOMAIN detail.logs : detail.logs[k].raw = ResponseMessages[i]["raw"]}

\* C21: every record of payload type 100 gives exactly one timeline row of type
\* log, whose source column is its destination column, and exactly one entry of
\* logs; it gives no entry of messages and is not counted in total_messages.
C21_LogRecords ==
    DetailBuilt =>
        /\ \A i \in ResponseLogs :
              /\ Cardinality(LogRowsOf(i)) = 1
              /\ \A k \in LogRowsOf(i) : detail.flow_rows[k].src_col = detail.flow_rows[k].dst_col
              /\ Cardinality(LogEntriesOf(i)) = 1
              /\ \A k \in DOMAIN detail.messages : detail.messages[k].id # ResponseMessages[i]["id"]
        /\ Cardinality({k \in DOMAIN detail.flow_rows : detail.flow_rows[k].type = "log"})
              = Cardinality(ResponseLogs)
        /\ Len(detail.logs) = Cardinality(ResponseLogs)
        /\ detail.total_messages = Cardinality(ResponseSip)
        /\ Len(detail.messages) = Cardinality(ResponseSip)

\* C21 witness: a log record sent from the endpoint of column 1 to the endpoint
\* of column 0, next to a SIP message: its row has both columns 0
C21_Witness ==
    /\ DetailBuilt
    /\ detail.total_messages = 1
    /\ \E i \in ResponseLogs :
          /\ Addr(ResponseMessages[i], "srcIp", "srcPort") = "10.0.0.2:5060"
          /\ detail.flow_cols = <<"pbx", "10.0.0.2:5060">>
          /\ \E k \in LogRowsOf(i) :
                detail.flow_rows[k].src_col = 0 /\ detail.flow_rows[k].dst_col = 0

\* the records of the response in the order of the timeline (the list of the
\* response object after the call), and the column the topology of the response
\* gives an address string, -1 when it holds no such endpoint
SortedMessages == RawMessagesOf(transaction)
TopologyColumn(addr) ==
    LET hosts == RawHostsOf(response)
        mapped == {i \in DOMAIN hosts : hosts[i].host = addr}
    IN  IF mapped = {} THEN -1 ELSE TopologyPosition(CHOOSE i \in mapped : TRUE)

\* the n-th element, counted from 1, of a set of indexes
Nth(S, n) == CHOOSE i \in S : Cardinality({j \in S : j <= i}) = n

\* C22: the source column of every SIP row is the position the topology gives
\* the string "srcIp:srcPort" of its record and the destination column the one
\* of "dstIp:dstPort", -1 when the topology has no such entry; every column is
\* -1 or an index into flow_cols.
C22_Columns ==
    (DetailBuilt /\ ~Has(detail, "raised")) =>
        LET sip_records == {i \in DOMAIN SortedMessages : Get(SortedMessages[i], "payloadType", 1) = 1}
            sip_rows == {k \in DOMAIN detail.flow_rows : detail.flow_rows[k].type = "sip"}
            AddrOf(rec, ip, port) ==
                Get(rec, ip, "") \o ":" \o (IF Has(rec, port) THEN ToString(rec[port]) ELSE "")
        IN  /\ Cardinality(sip_rows) = Cardinality(sip_records)
            /\ \A n \in 1..Cardinality(sip_rows) :
                  LET row == detail.flow_rows[Nth(sip_rows, n)]
                      rec == SortedMessages[Nth(sip_records, n)]
                  IN  /\ row.src_col = TopologyColumn(AddrOf(rec, "srcIp", "srcPort"))
                      /\ row.dst_col = TopologyColumn(AddrOf(rec, "dstIp", "dstPort"))
                      /\ \A c \in {row.src_col, row.dst_col} :
                            c = -1 \/ (0 <= c /\ c < Len(detail.flow_cols))

\* C22 witness: a message from an endpoint outside the topology to the endpoint
\* at position 2, the other endpoint at position 0
C22_Witness ==
    /\ DetailBuilt
    /\ ~Has(detail, "raised")
    /\ Len(detail.flow_cols) = 3
    /\ \E k \in DOMAIN detail.flow_rows :
          /\ detail.flow_rows[k].type = "sip"
          /\ detail.flow_rows[k].src_col = -1
          /\ detail.flow_rows[k].dst_col = 2
    /\ \E k \in DOMAIN detail.flow_rows :
          /\ detail.flow_rows[k].type = "sip"
          /\ detail.flow_rows[k].src_col = 0

\* C23: the msg_idx of a SIP row is the place in messages of the message built
\* from the same record; the SIP rows carry 0, 1, ..., n-1 in the order of the
\* timeline, whatever log rows stand between them, and total_messages is n, the
\* number of SIP records.
C23_MsgIdx ==
    DetailBuilt =>
        LET sip_rows == {k \in DOMAIN detail.flow_rows : detail.flow_rows[k].type = "sip"}
        IN  /\ Cardinality(sip_rows) = Cardinality(ResponseSip)
            /\ detail.total_messages = Cardinality(ResponseSip)
            /\ Len(detail.messages) = Cardinality(ResponseSip)
            /\ \A n \in 1..Cardinality(sip_rows) :
                  LET row == detail.flow_rows[Nth(sip_rows, n)]
                  IN  /\ row.msg_idx = n - 1
                      /\ row.msg_id_str = "[" \o ToString(detail.messages[row.msg_idx + 1].id) \o "]"

\* C23 witness: a log row stands before the second SIP row, which carries
\* msg_idx 1 at the third place of the timeline
C23_Witness ==
    /\ DetailBuilt
    /\ Len(detail.flow_rows) = 3
    /\ detail.flow_rows[1].type = "sip"
    /\ detail.flow_rows[2].type = "log"
    /\ detail.flow_rows[3].type = "sip"
    /\ detail.flow_rows[3].msg_idx = 1
    /\ detail.total_messages = 2

\* C24: first_ts_ms is the timestamp of the first of the SIP and log records
\* sorted by timestamp, 0 when there is none, and every offset_ms is measured
\* from it; a record of another payload type changes neither.
C24_EarliestOfSipAndLog ==
    DetailBuilt =>
        LET shown == ResponseSip \cup ResponseLogs
            stamps == {Get(ResponseMessages[i], "micro_ts", 0) : i \in shown}
            earliest == IF shown = {} THEN 0
                        ELSE CHOOSE x \in stamps : \A y \in stamps : x <= y
        IN  /\ detail.first_ts_ms = earliest
            /\ \A k \in DOMAIN detail.flow_rows :
                  detail.flow_rows[k].offset_ms =
                      Get(ResponseMessages[SourceOfRow(detail.flow_rows[k])], "micro_ts", 0) - earliest

\* the smallest id of the SIP records of the response, a missing id read as 0
SmallestSipId ==
    LET ids == {Get(ResponseMessages[i], "id", 0) : i \in ResponseSip}
    IN  CHOOSE x \in ids : \A y \in ids : x <= y

\* C25: the id of a row of _group_calls is the smallest id of the records of its
\* call, a missing id read as 0, and the id of the row of
\* _call_summary_from_transaction follows the same rule.
C25_RepresentativeId ==
    /\ pc = "grouped" =>
          \A k \in DOMAIN rows :
              LET ids == {Get(records[i], "id", 0) : i \in Partition(rows[k].callid)}
              IN  rows[k].id = CHOOSE x \in ids : \A y \in ids : x <= y
    /\ (pc = "summarised" /\ summary # None) => summary.id = SmallestSipId

\* C30: the timing values of the session are never negative, in whatever order
\* in time INVITE, 180, 200 and BYE stand.
C30_TimingsNonNegative ==
    DetailBuilt =>
        /\ detail.session.ringing_ms >= 0
        /\ detail.session.setup_ms >= 0
        /\ detail.session.disconnect_ms >= 0
        /\ detail.session.duration_ms >= 0
        /\ detail.session.duration_sec >= 0

\* the calls of the trace before call j that set or invalidate the url of call j
WritesBefore(j) ==
    {i \in 1..(j - 1) : trace[i].url = trace[j].url /\ trace[i].op \in {"set", "invalidate"}}

\* C28: after invalidate(url) every is_fresh(url) returns False until set(url,
\* ...) is called again, for any clock value and any intervening get or
\* operation on another url; after set(url, ...) is_fresh(url) is True until
\* TTL (30 s) has elapsed.
C28_FreshUntilTTL ==
    \A j \in DOMAIN trace :
        (trace[j].op = "is_fresh" /\ WritesBefore(j) # {}) =>
            LET i == Max(WritesBefore(j))
            IN  IF trace[i].op = "invalidate"
                THEN trace[j].result = FALSE
                ELSE (trace[j].at - trace[i].at < TTL) => trace[j].result = TRUE

\* the calls of get_flash before call j
ReadsBefore(j) == {i \in 1..(j - 1) : trace[i].op = "get_flash"}

\* the calls of flash before call j that no get_flash has followed yet
PendingBefore(j) ==
    {i \in 1..(j - 1) : trace[i].op = "flash" /\ \A r \in ReadsBefore(j) : r < i}

\* C29: flash messages are one-shot per session: after flash(message, kind) the
\* next get_flash returns (message, kind), the pair of the latest flash when
\* flash was called twice before the read, and every later get_flash returns
\* (None, None) until flash is called again.
C29_FlashOnce ==
    \A j \in DOMAIN trace :
        trace[j].op = "get_flash" =>
            IF PendingBefore(j) # {}
            THEN LET i == Max(PendingBefore(j))
                 IN  /\ trace[j].message = {trace[i].message}
                     /\ trace[j].kind = {trace[i].kind}
            ELSE ReadsBefore(j) # {} =>
                     (trace[j].message = {} /\ trace[j].kind = {})

\* a flash of an empty message, read, and read again
C29_Witness ==
    /\ pc = "flash"
    /\ Len(trace) = 3
    /\ trace[1].op = "flash" /\ trace[1].message = ""
    /\ trace[2].op = "get_flash" /\ trace[2].message = {""}
    /\ trace[3].op = "get_flash" /\ trace[3].message = {}
    /\ DOMAIN session = {"csrf"}

\* the expiry of a token can be decoded: three segments, a JSON object as
\* payload, a number as "exp"
HasExpiry(token) ==
    /\ token.segments = 3
    /\ token.decodable
    /\ \E e \in token.exp : Has(e, "num")

\* the expiry to store with a token received at time `at`
ExpiryOf(token, at) ==
    IF HasExpiry(token) THEN (CHOOSE e \in token.exp : TRUE)["num"] ELSE at + TokenDefaultLife

\* call j found a non-empty token more than 60 seconds before its stored expiry
ServedFromCache(j) ==
    trace[j].before.token # "" /\ trace[j].at < trace[j].before.exp - TokenMargin

\* C26: over any sequence of _ensure_token calls, a call returns the cached
\* token without logging in exactly when a non-empty token is cached and the
\* current time is more than 60 seconds before its stored expiry; otherwise it
\* performs exactly one login, replaces the cached token and expiry (one hour
\* from now when the expiry cannot be decoded from the token) and returns the
\* new token. Each call starts from the cache the call before it left.
C26_EnsureToken ==
    \A j \in DOMAIN trace :
        trace[j].op = "ensure_token" =>
            /\ (trace[j].logins = 0) <=> ServedFromCache(j)
            /\ j > 1 => trace[j].before = trace[j - 1].after
            /\ IF ServedFromCache(j)
               THEN /\ trace[j].error = {}
                    /\ trace[j].token = trace[j].before.token
                    /\ trace[j].after = trace[j].before
               ELSE /\ trace[j].logins = 1
                    /\ trace[j].error = {} =>
                          \E token \in trace[j].answer :
                             /\ trace[j].token = token.text
                             /\ trace[j].after =
                                   [token |-> token.text, exp |-> ExpiryOf(token, trace[j].at)]

\* a login at 1000 with a token whose expiry cannot be decoded, a call served
\* from the cache 61 s before the stored expiry, and a login 60 s before it
C26_Witness ==
    /\ pc = "token"
    /\ Len(trace) = 3
    /\ trace[1].at = Now /\ trace[1].logins = 1 /\ trace[1].token = "jwt5"
    /\ trace[1].after.exp = Now + TokenDefaultLife
    /\ trace[2].at = 4539 /\ trace[2].logins = 0 /\ trace[2].token = "jwt5"
    /\ trace[3].at = 4540 /\ trace[3].logins = 1 /\ trace[3].token = "jwt2"
    /\ token_cache = [token |-> "jwt2", exp |-> 9000]

\* the logins that have completed with a token
CompletedLogins == {i \in DOMAIN backend_calls : backend_calls[i].ok}

\* C27: under every interleaving of concurrent _ensure_token calls, at every
\* point where a coroutine can observe the cache, the cached token and the
\* cached expiry come from the same completed login (or are the ones the
\* coroutines started with), and every call that has returned has returned the
\* token of the login it completed or the cached token it found.
C27_AsyncioSafe ==
    /\ IF CompletedLogins = {}
       THEN \A i \in DOMAIN tasks : Has(tasks[i], "seen") => tasks[i].seen = token_cache
       ELSE \E l \in CompletedLogins :
               token_cache = [token |-> backend_calls[l].jwt.text,
                              exp |-> ExpiryOf(backend_calls[l].jwt, backend_calls[l].at)]
    /\ \A i \in DOMAIN tasks :
          tasks[i].pc = "done" =>
             IF tasks[i].login = {}
             THEN /\ tasks[i].returned = tasks[i].seen.token
                  /\ tasks[i].seen.token # ""
                  /\ tasks[i].at < tasks[i].seen.exp - TokenMargin
             ELSE \E l \in tasks[i].login :
                     /\ l \in CompletedLogins
                     /\ tasks[i].returned = backend_calls[l].jwt.text

\* two coroutines found the cache empty before either login completed; the
\* login of the second completed first, and the cache holds the token and the
\* expiry of the login that completed last
C27_Witness ==
    /\ pc = "tokens"
    /\ tasks[1].pc = "done" /\ tasks[1].seen.token = "" /\ tasks[1].login = {2}
    /\ tasks[2].pc = "done" /\ tasks[2].seen.token = "" /\ tasks[2].login = {1}
    /\ backend_calls[1].jwt.text = "jwt3" /\ backend_calls[1].at = Now
    /\ backend_calls[2].jwt.text = "jwt2" /\ backend_calls[2].at = 4540
    /\ tasks[1].returned = "jwt2" /\ tasks[2].returned = "jwt3"
    /\ token_cache = [token |-> "jwt2", exp |-> 9000]

====
